---- MODULE Spec2Model ----
(***************************************************************************)
(* Jackfruit: the ingestion process (RunID validation, the CDS client's    *)
(* submit / poll / results / download flow, the object-storage write), the *)
(* ingestion command around it (flags, configuration, exit status), the    *)
(* serving domain service (GetVariables' concurrent lookups) and the       *)
(* serving API's routes.                                                   *)
(*                                                                         *)
(* Strings are sequences of tokens: a run identifier is a sequence of      *)
(* one-character tokens, an error text or an object key is the sequence of *)
(* the pieces the format string joins.  Time is counted in abstract units. *)
(***************************************************************************)
EXTENDS Naturals, Sequences, FiniteSets, TLC

\* ------------------------------------------------------------------ bounds
\* the poll interval and the poll timeout, in abstract time units
PollInterval == 1
PollTimeout == 3
\* the largest number of variables in one GetVariables request
MaxVars == 3
\* how many Ingest runs write to the same bucket one after another
MaxCalls == 2

\* the clock stops one unit after the poll deadline
MaxTime == PollTimeout + 1

\* ------------------------------------------------------------- run ids
RunV7a ==
  <<"0","1","8","9","0","c","2","4","-","9","0","5","b","-","7","1","2","2","-","b","1","7","0","-","b","6","0","8","1","4","e","6","e","e","0","6">>
RunV7b ==
  <<"0","1","8","9","0","c","2","4","-","9","0","5","b","-","7","1","2","2","-","b","1","7","0","-","b","6","0","8","1","4","e","6","e","e","0","7">>
RunV4 ==
  <<"5","5","0","e","8","4","0","0","-","e","2","9","b","-","4","1","d","4","-","a","7","1","6","-","4","4","6","6","5","5","4","4","0","0","0","0">>
RunMalformed ==
  <<"n","o","t","-","a","-","u","u","i","d">>
RunBadHex ==
  <<"0","1","8","9","0","c","2","4","-","9","0","5","b","-","7","1","2","2","-","b","1","7","0","-","b","6","0","8","1","4","e","6","e","e","Z","Z">>
RunEmpty == <<>>

\* the run identifiers the orchestrator may pass
RunIDs == {RunV7a, RunV7b, RunV4, RunMalformed, RunBadHex, RunEmpty}

HexChars ==
  {"0","1","2","3","4","5","6","7","8","9",
   "a","b","c","d","e","f","A","B","C","D","E","F"}

\* positions (1-based) of the hyphens and of the version digit in the
\* 36-character form xxxxxxxx-xxxx-Vxxx-xxxx-xxxxxxxxxxxx
HyphenAt == {9, 14, 19, 24}
VersionDigit(r) == r[15]

NoError == [kind |-> "nil"]

RunIDValidate_anyVersion(r) ==
  IF r = <<>>
    THEN [kind |-> "error", text |-> <<"run-id cannot be empty">>]
  ELSE IF Len(r) # 36
    THEN [kind |-> "error", text |-> <<"run-id must be a valid UUID:", "invalid UUID length">>]
  ELSE NoError

\* strings.EqualFold on the letters of the urn prefix
Fold(c) ==
  CASE c = "U" -> "u" [] c = "R" -> "r" [] c = "N" -> "n"
    [] c = "I" -> "i" [] c = "D" -> "d" [] OTHER -> c

UrnPrefix == <<"u","r","n",":","u","u","i","d",":">>

ParseFails(text) == [ok |-> FALSE, version |-> "", text |-> text]

\* uuid.Parse on xxxxxxxx-xxxx-xxxx-xxxx-xxxxxxxxxxxx
ParseHyphenated(s) ==
  IF \E i \in 1..36 : IF i \in HyphenAt THEN s[i] # "-" ELSE s[i] \notin HexChars
    THEN ParseFails("invalid UUID format")
    ELSE [ok |-> TRUE, version |-> VersionDigit(s), text |-> ""]

\* uuid.Parse: the switch on len(s) over the standard form, the urn form,
\* the 38-character form (whose first and last characters are dropped
\* unread) and the raw hex form
UUIDParse(r) ==
  CASE Len(r) = 36 -> ParseHyphenated(r)
    [] Len(r) = 45 ->
         IF \A i \in 1..9 : Fold(r[i]) = UrnPrefix[i]
           THEN ParseHyphenated(SubSeq(r, 10, 45))
           ELSE ParseFails("invalid urn prefix")
    [] Len(r) = 38 -> ParseHyphenated(SubSeq(r, 2, 37))
    [] Len(r) = 32 ->
         IF \A i \in 1..32 : r[i] \in HexChars
           THEN [ok |-> TRUE, version |-> r[13], text |-> ""]
           ELSE ParseFails("invalid UUID format")
    [] OTHER -> ParseFails("invalid UUID length")

\* RunID.Validate: not empty, uuid.Parse, then the version test
RunIDValidate(r) ==
  IF r = <<>>
    THEN [kind |-> "error", text |-> <<"run-id cannot be empty">>]
  ELSE IF ~UUIDParse(r).ok
    THEN [kind |-> "error", text |-> <<"run-id must be a valid UUID:", UUIDParse(r).text>>]
  ELSE IF UUIDParse(r).version # "7"
    THEN [kind |-> "error", text |-> <<"run-id must be a UUIDv7, got v", UUIDParse(r).version>>]
  ELSE NoError

\* ------------------------------------------------------------ datasets
CAMSEuropeAirQualityForecastsAnalysis == <<"cams-europe-air-quality-forecasts-analysis">>
CAMSEuropeAirQualityForecastsForecast == <<"cams-europe-air-quality-forecasts-forecast">>
ValidDatasets == {CAMSEuropeAirQualityForecastsAnalysis, CAMSEuropeAirQualityForecastsForecast}

\* the dates of the requests: [y, m, d]
Dates == {[y |-> 2025, m |-> 3, d |-> 12], [y |-> 2024, m |-> 11, d |-> 5]}

DigitTok == <<"0","1","2","3","4","5","6","7","8","9">>
Digit(n) == DigitTok[n + 1]
Pad2(n) == <<Digit(n \div 10), Digit(n % 10)>>
FormatDate_unpadded(dt) ==
  <<Digit(dt.y \div 1000), Digit((dt.y \div 100) % 10), Digit((dt.y \div 10) % 10), Digit(dt.y % 10)>>
    \o <<"-">> \o (IF dt.m < 10 THEN <<Digit(dt.m)>> ELSE Pad2(dt.m))
    \o <<"-">> \o (IF dt.d < 10 THEN <<Digit(dt.d)>> ELSE Pad2(dt.d))

\* time.Format("2006-01-02")
FormatDate(dt) ==
  <<Digit(dt.y \div 1000), Digit((dt.y \div 100) % 10), Digit((dt.y \div 10) % 10), Digit(dt.y % 10)>>
    \o <<"-">> \o Pad2(dt.m) \o <<"-">> \o Pad2(dt.d)

ObjectKeyKey_runIDHead(k) ==
  k.Source \o <<"/">> \o k.Dataset \o <<"/">> \o k.Date \o <<"/">>
    \o (IF k.RunID = <<>> THEN <<>> ELSE <<k.RunID[1]>>) \o <<".">> \o k.Extension

ObjectKeyKey_noRunID(k) ==
  k.Source \o <<"/">> \o k.Dataset \o <<"/">> \o k.Date \o <<".">> \o k.Extension

\* fmt.Sprintf("%s/%s/%s/%s.%s", Source, Dataset, Date, RunID, Extension)
ObjectKeyKey(k) ==
  k.Source \o <<"/">> \o k.Dataset \o <<"/">> \o k.Date \o <<"/">> \o k.RunID \o <<".">> \o k.Extension

\* ------------------------------------------------------- the CDS client
jobStateAccepted == "accepted"
jobStateRunning == "running"
jobStateSuccessful == "successful"
jobStateFailed == "failed"
jobStateRejected == "rejected"
jobStateDismissed == "dismissed"
JobStates == {jobStateAccepted, jobStateRunning, jobStateSuccessful,
              jobStateFailed, jobStateRejected, jobStateDismissed}

JobIDs == {"job-1", "job-2"}
\* the body the asset URL serves
AssetBytes == {"grib-bytes"}
\* an unexpected HTTP status code of the remote API
BadStatusCodes == {"500"}

\* Error() of an error value, as tokens
ErrText(e) ==
  CASE e.kind = "apiError" -> <<"cds:", e.Message, "(status", e.StatusCode, ")">>
    [] e.kind = "ClientError" -> <<"cds client:">> \o e.Message
    [] OTHER -> e.text

\* errors.Unwrap: the error an error wraps; apiError and ClientError have no
\* Unwrap method, an error made by fmt.Errorf with %w has one
Unwrap(e) == IF e.kind = "wrapped" THEN e.cause ELSE NoError

apiError_noCode(code, message) == [kind |-> "apiError", StatusCode |-> "0", Message |-> message]

\* &apiError{StatusCode: response.StatusCode, Message: message}
apiError(code, message) == [kind |-> "apiError", StatusCode |-> code, Message |-> message]

\* ctx.Err() of a context that is done
CtxErr(cause) ==
  [kind |-> "ctx",
   text |-> <<IF cause = "deadline" THEN "context deadline exceeded" ELSE "context canceled">>]

\* the error of http.Client.Do on a request whose context is done
TransportCtxErr(method, cause) ==
  [kind |-> "error", text |-> <<method, "url", ":">> \o CtxErr(cause).text]

\* any other transport or decoding failure
TransportErr == [kind |-> "error", text |-> <<"transport or decode failure">>]

\* fmt.Errorf("job %s failed with status: %s", requestID, job.Status)
JobFailedErr(requestID, status) ==
  [kind |-> "error", text |-> <<"job", requestID, "failed with status:", status>>]

toClientError_dropsCause(err, context) ==
  IF err = NoError THEN NoError
  ELSE [kind |-> "ClientError", Message |-> <<context>>]

\* Client.toClientError: a ClientError whose message is "context: err"
toClientError(err, context) ==
  IF err = NoError THEN NoError
  ELSE [kind |-> "ClientError", Message |-> <<context, ":">> \o ErrText(err)]

JobSwitch_acceptedReturns(status) ==
  CASE status \in {jobStateSuccessful, jobStateAccepted} -> "return"
    [] status \in {jobStateFailed, jobStateRejected} -> "fail"
    [] OTHER -> "continue"

JobSwitch_rejectedContinues(status) ==
  CASE status = jobStateSuccessful -> "return"
    [] status = jobStateFailed -> "fail"
    [] OTHER -> "continue"

\* the switch on job.Status in waitForCompletion
JobSwitch(status) ==
  CASE status = jobStateSuccessful -> "return"
    [] status \in {jobStateFailed, jobStateRejected} -> "fail"
    [] OTHER -> "continue"

NoStream == [open |-> FALSE, content |-> "none"]

DownloadBody_empty(bytes) == [open |-> TRUE, content |-> "none"]

\* apiDownloadAsset's return on 200: resp.Body, which the caller must close
DownloadBody(bytes) == [open |-> TRUE, content |-> bytes]

VARIABLES
  \* ---- the ingestion process
  runID,        \* the run identifier passed to Ingest
  req,          \* the FetchRequest: [Dataset, Date]
  ipc,          \* where Ingest is: "validate", "fetch", "put", "done"
  ingestErr,    \* what Ingest returned
  fpc,          \* where Fetch is: "idle", "submit", "select", "poll", "results", "download", "done"
  jobID,        \* the job id the submit returned
  calls,        \* the requests the remote API received: [ep, at, cancelled]
  replies,      \* what each request was answered: [ep, outcome]
  now,          \* the clock
  deadline,     \* when the poll context times out
  nextTick,     \* when the ticker fires next
  tickPending,  \* a tick waits in the ticker's channel
  cancelled,    \* the caller's context is cancelled
  cancelAt,     \* where Fetch was when the caller cancelled
  pollCtx,      \* the poll context: "none", "live", "deadline", "canceled"
  fetchErr,     \* the error Fetch returned
  body,         \* the stream Fetch returned
  puts,         \* the storage Puts that were issued: [key, ok, runID, req]
  objects,      \* the stored objects: a set of [key, content]
  callNo,       \* which Ingest run on the bucket this is
  \* ---- the serving domain service
  reqVars,      \* GetVariables' vars: the requested variable names, in order
  qpoint,       \* GetVariables' ts, lat, lon
  qpc,          \* where GetVariables is: "idle", "running", "returned", "panicked"
  launched,     \* how many lookups the loop has handed to g.Go
  tpc,          \* per lookup: "idle", "inflight", "finished"
  tout,         \* per lookup: what the store answered ("none" before)
  results,      \* the result slots
  gErr,         \* the errgroup's first error
  gCtx,         \* the errgroup's context: "live", "cancelled"
  reqCancelled, \* the inbound request's context is cancelled
  order,        \* the lookups in the order they finished
  qRet,         \* what GetVariables returned: [nilResults, results, err]
  \* ---- one call of a function of the repository
  pIn,          \* the function called and its arguments
  ppc,          \* "call" before the call, "returned" after, "idle" when there is none
  pOut,         \* what the call returned
  \* ---- Ingest calls that run at the same time
  cc,           \* per caller: [runID, req, pc, jobID, polls, named, body, err]
  remote,       \* the job ids the remote API has issued, in order
  \* ---- the ingestion command (main)
  mflags,       \* the command line: [dataset, date, runID]
  mpc,          \* where main is: "flags", "config", "minio", "ingest", "ingesting", "exited", "idle"
  msteps,       \* what main has done so far: [step, ok]
  exitStatus    \* <<the status the process exited with>>, <<>> before

ingestVars ==
  <<runID, req, ipc, ingestErr, fpc, jobID, calls, replies, now, deadline, nextTick,
    tickPending, cancelled, cancelAt, pollCtx, fetchErr, body, puts, objects, callNo>>

queryVars ==
  <<reqVars, qpoint, qpc, launched, tpc, tout, results, gErr, gCtx, reqCancelled, order, qRet>>

callVars == <<pIn, ppc, pOut>>

concVars == <<cc, remote>>

mainVars == <<mflags, mpc, msteps, exitStatus>>

vars == <<ingestVars, queryVars, callVars, concVars, mainVars>>

IngestInit ==
  /\ runID \in RunIDs
  /\ req \in [Dataset : ValidDatasets, Date : Dates]
  /\ ipc = "validate"
  /\ ingestErr = NoError
  /\ fpc = "idle"
  /\ jobID = "none"
  /\ calls = <<>>
  /\ replies = <<>>
  /\ now = 0
  /\ deadline = 0
  /\ nextTick = 0
  /\ tickPending = FALSE
  /\ cancelled = FALSE
  /\ cancelAt = "never"
  /\ pollCtx = "none"
  /\ fetchErr = NoError
  /\ body = NoStream
  /\ puts = <<>>
  /\ objects = {}
  /\ callNo = 1


idVars == <<runID, req>>
clockVars == <<now, deadline, nextTick, tickPending, pollCtx>>
cancelVars == <<cancelled, cancelAt>>
storeVars == <<puts, objects, callNo>>

Call(ep) == [ep |-> ep, at |-> now, cancelled |-> cancelled]
ResponseBodyOpen_noCleanup(ep, outcome) == ep = "download" /\ outcome \in {"ok", "badstatus"}

\* whether the response body of a step is open when the step returns: the
\* submit, status and results steps defer response.Body.Close(); the download
\* step closes it on a status other than 200 and returns it on 200; a
\* request that failed has no response
ResponseBodyOpen(ep, outcome) == ep = "download" /\ outcome = "ok"

\* a step's answer as Fetch sees it, and the state it leaves the body in
Reply(ep, outcome) ==
  [ep |-> ep, outcome |-> outcome, bodyOpen |-> ResponseBodyOpen(ep, outcome)]

\* context.WithTimeout(ctx, c.pollTimeout): the poll context is a child of the
\* caller's, so the caller's cancellation ends it
PollCtxOnCancel_detached(cur) == cur
PollCtxOnCancel(cur) == IF cur = "live" THEN "canceled" ELSE cur

\* the context waitForCompletion selects on is done
PollCtxDone == pollCtx # "live"

\* the context apiGetJob's request carries (the poll context) is done
StatusRequestCtxDone_parent == cancelled
StatusRequestCtxDone == pollCtx # "live"

\* the cause a done request context replies
StatusRequestCtxCause == IF pollCtx = "live" THEN "canceled" ELSE pollCtx

FetchFails_resubmits(err) ==
  /\ fpc' = "submitting"
  /\ UNCHANGED <<fetchErr, body, ipc, ingestErr>>

\* Fetch returns err: Ingest wraps it ("fetch: %w") and returns
FetchFails(err) ==
  /\ fpc' = "done"
  /\ fetchErr' = err
  /\ body' = NoStream
  /\ ipc' = "done"
  /\ ingestErr' = [kind |-> "wrapped", text |-> <<"fetch:">> \o ErrText(err), cause |-> err]

\* a request under the caller's context: refused unsent when the context is
\* done, else received by the endpoint
SendOrFail(ep, method, next, context) ==
  IF cancelled
    THEN /\ FetchFails(toClientError(TransportCtxErr(method, "canceled"), context))
         /\ UNCHANGED calls
    ELSE /\ fpc' = next
         /\ calls' = Append(calls, Call(ep))
         /\ UNCHANGED <<ipc, ingestErr, fetchErr, body>>

\* Ingest: runID.Validate(), then fetcher.Fetch, whose first step submits
IngestStart ==
  /\ ipc = "validate"
  /\ IF RunIDValidate(runID) # NoError
       THEN /\ ipc' = "done"
            /\ ingestErr' = RunIDValidate(runID)
            /\ UNCHANGED <<fpc, calls, fetchErr, body>>
       ELSE /\ ipc' = "fetch"
            /\ fpc' = "submitting"
            /\ UNCHANGED <<ingestErr, calls, fetchErr, body>>
  /\ UNCHANGED <<idVars, jobID, replies, clockVars, cancelVars, storeVars>>
  /\ UNCHANGED <<queryVars, callVars, concVars, mainVars>>

\* fetchInternal calls apiPostExecute
apiPostExecuteSend ==
  /\ fpc = "submitting"
  /\ SendOrFail("submit", "Post", "submit", "failed to submit execute request")
  /\ UNCHANGED <<idVars, jobID, replies, clockVars, cancelVars, storeVars>>
  /\ UNCHANGED <<queryVars, callVars, concVars, mainVars>>

\* what a request in flight under a context can end with
HttpOutcomes(ctxDone) ==
  {"ok", "badstatus", "neterr"} \cup (IF ctxDone THEN {"ctxerr"} ELSE {})

HttpErr_generic(outcome, method, cause, message) ==
  IF outcome = "ctxerr" THEN TransportCtxErr(method, cause) ELSE TransportErr

\* the error a step returns for a response it does not accept
HttpErr(outcome, method, cause, message) ==
  CASE outcome = "badstatus" -> apiError(CHOOSE c \in BadStatusCodes : TRUE, message)
    [] outcome = "ctxerr" -> TransportCtxErr(method, cause)
    [] OTHER -> TransportErr

NewTickerPending_immediate == TRUE

\* time.NewTicker(c.pollInterval): the channel is empty until the first
\* interval has elapsed
NewTickerPending == FALSE

\* apiPostExecute returns; on a job, waitForCompletion starts its timeout
\* context and its ticker
apiPostExecuteReturn ==
  /\ fpc = "submit"
  /\ \E outcome \in HttpOutcomes(cancelled), j \in JobIDs :
       /\ replies' = Append(replies, Reply("submit", outcome))
       /\ IF outcome = "ok"
         THEN /\ jobID' = j
              /\ fpc' = "select"
              /\ deadline' = now + PollTimeout
              /\ nextTick' = now + PollInterval
              /\ tickPending' = NewTickerPending
              /\ pollCtx' = IF cancelled THEN "canceled" ELSE "live"
              /\ UNCHANGED <<ipc, ingestErr, fetchErr, body, now>>
         ELSE /\ FetchFails(toClientError(
                   HttpErr(outcome, "Post", "canceled", "execute request failed"),
                   "failed to submit execute request"))
              /\ UNCHANGED <<jobID, clockVars>>
  /\ UNCHANGED <<idVars, calls, cancelVars, storeVars>>
  /\ UNCHANGED <<queryVars, callVars, concVars, mainVars>>

PollCtxAt_noTimeout(cur, t) == cur

\* context.WithTimeout(ctx, c.pollTimeout): the poll context is done with
\* DeadlineExceeded from the deadline on
PollCtxAt(cur, t) == IF cur = "live" /\ t >= deadline THEN "deadline" ELSE cur

\* time passes while the poll loop waits or a status request is in flight
Tick ==
  /\ fpc \in {"select", "poll"}
  /\ now < MaxTime
  /\ now' = now + 1
  /\ tickPending' = (tickPending \/ now + 1 = nextTick)
  /\ nextTick' = IF now + 1 = nextTick THEN nextTick + PollInterval ELSE nextTick
  /\ pollCtx' = PollCtxAt(pollCtx, now + 1)
  /\ UNCHANGED <<idVars, ipc, ingestErr, fpc, jobID, calls, replies, deadline,
                 cancelVars, fetchErr, body, storeVars>>
  /\ UNCHANGED <<queryVars, callVars, concVars, mainVars>>

\* the caller's context is cancelled (SIGINT, SIGTERM)
Cancel ==
  /\ ~cancelled
  /\ ipc # "done"
  /\ cancelled' = TRUE
  /\ cancelAt' = fpc
  /\ pollCtx' = IF fpc \in {"select", "poll"} THEN PollCtxOnCancel(pollCtx) ELSE pollCtx
  /\ UNCHANGED <<idVars, ipc, ingestErr, fpc, jobID, calls, replies, now, deadline,
                 nextTick, tickPending, fetchErr, body, storeVars>>
  /\ UNCHANGED <<queryVars, callVars, concVars, mainVars>>

\* select: case <-ctx.Done(): return nil, ctx.Err()
SelectDone ==
  /\ fpc = "select"
  /\ PollCtxDone
  /\ FetchFails(toClientError(CtxErr(pollCtx), "failed to wait for job completion"))
  /\ UNCHANGED <<idVars, jobID, calls, replies, clockVars, cancelVars, storeVars>>
  /\ UNCHANGED <<queryVars, callVars, concVars, mainVars>>

\* select: case <-ticker.C, then apiGetJob(ctx, requestID)
SelectTick ==
  /\ fpc = "select"
  /\ tickPending
  /\ tickPending' = FALSE
  /\ IF StatusRequestCtxDone
       THEN /\ FetchFails(toClientError(TransportCtxErr("Get", StatusRequestCtxCause),
                                        "failed to wait for job completion"))
            /\ UNCHANGED calls
       ELSE /\ fpc' = "poll"
            /\ calls' = Append(calls, Call("status"))
            /\ UNCHANGED <<ipc, ingestErr, fetchErr, body>>
  /\ UNCHANGED <<idVars, jobID, replies, now, deadline, nextTick, pollCtx,
                 cancelVars, storeVars>>
  /\ UNCHANGED <<queryVars, callVars, concVars, mainVars>>

\* apiGetJob returns, then the switch on job.Status; on successful the loop
\* returns and fetchInternal calls apiGetResults
apiGetJobReturn ==
  /\ fpc = "poll"
  /\ \E outcome \in HttpOutcomes(StatusRequestCtxDone), st \in JobStates :
       /\ replies' = Append(replies, Reply("status", IF outcome = "ok" THEN st ELSE outcome))
       /\ IF outcome # "ok"
            THEN /\ FetchFails(toClientError(
                      HttpErr(outcome, "Get", StatusRequestCtxCause, "failed to get job status"),
                      "failed to wait for job completion"))
                 /\ UNCHANGED calls
            ELSE CASE JobSwitch(st) = "return" ->
                        SendOrFail("results", "Get", "results", "failed to get job results")
                   [] JobSwitch(st) = "fail" ->
                        /\ FetchFails(toClientError(JobFailedErr(jobID, st),
                                                    "failed to wait for job completion"))
                        /\ UNCHANGED calls
                   [] OTHER ->
                        /\ fpc' = "select"
                        /\ UNCHANGED <<ipc, ingestErr, fetchErr, body, calls>>
  /\ UNCHANGED <<idVars, jobID, clockVars, cancelVars, storeVars>>
  /\ UNCHANGED <<queryVars, callVars, concVars, mainVars>>

\* apiGetResults returns; on an asset descriptor fetchInternal calls
\* apiDownloadAsset
apiGetResultsReturn ==
  /\ fpc = "results"
  /\ \E outcome \in HttpOutcomes(cancelled) :
       /\ replies' = Append(replies, Reply("results", outcome))
       /\ IF outcome = "ok"
         THEN SendOrFail("download", "Get", "download", "failed to download asset")
         ELSE /\ FetchFails(toClientError(
                   HttpErr(outcome, "Get", "canceled", "failed to get job results"),
                   "failed to get job results"))
              /\ UNCHANGED calls
  /\ UNCHANGED <<idVars, jobID, clockVars, cancelVars, storeVars>>
  /\ UNCHANGED <<queryVars, callVars, concVars, mainVars>>

\* apiDownloadAsset returns; on a body Fetch returns the FetchResult to Ingest
apiDownloadAssetReturn ==
  /\ fpc = "download"
  /\ \E outcome \in HttpOutcomes(cancelled), bytes \in AssetBytes :
       /\ replies' = Append(replies, Reply("download", outcome))
       /\ IF outcome = "ok"
         THEN /\ fpc' = "done"
              /\ body' = DownloadBody(bytes)
              /\ ipc' = "put"
              /\ UNCHANGED <<ingestErr, fetchErr>>
         ELSE FetchFails(toClientError(
                HttpErr(outcome, "Get", "canceled", "failed to download asset"),
                "failed to download asset"))
  /\ UNCHANGED <<idVars, jobID, calls, clockVars, cancelVars, storeVars>>
  /\ UNCHANGED <<queryVars, callVars, concVars, mainVars>>

\* the provenance Fetch attaches to the stream
FetchSource == <<"ads">>
FetchExtension == <<"grib">>

IngestKey ==
  ObjectKeyKey([Source |-> FetchSource, Dataset |-> req.Dataset,
                Date |-> FormatDate(req.Date), RunID |-> runID,
                Extension |-> FetchExtension])

\* MinIOClient.Put's error: fmt.Errorf("failed to upload to minio: %w", err)
MinIOPutErr ==
  [kind |-> "wrapped", text |-> <<"failed to upload to minio:", "minio failure">>,
   cause |-> [kind |-> "error", text |-> <<"minio failure">>]]

\* what objectStorage.Put can return
PutErrs == {NoError, MinIOPutErr}

IngestReturn_swallowsStoreError(putErr) == NoError

\* Ingest's return after the Put: fmt.Errorf("store: %w", err), or nil
IngestReturn(putErr) ==
  IF putErr # NoError
    THEN [kind |-> "wrapped", text |-> <<"store:">> \o ErrText(putErr), cause |-> putErr]
    ELSE NoError

DeferredClose_leftOpen(b) == b

\* defer result.Body.Close()
DeferredClose(b) == [b EXCEPT !.open = FALSE]

\* PutObject under a key: the object the key held, if any, is replaced
PutObject(store, key, content) ==
  {o \in store : o.key # key} \cup {[key |-> key, content |-> content]}

\* Ingest: objectStorage.Put(key, result.Body), the deferred Body.Close()
IngestPut ==
  /\ ipc = "put"
  /\ \E putErr \in PutErrs :
       /\ puts' = Append(puts, [key |-> IngestKey, ok |-> putErr = NoError,
                                runID |-> runID, req |-> req])
       /\ objects' = IF putErr = NoError
                       THEN PutObject(objects, IngestKey, body.content)
                       ELSE objects
       /\ ingestErr' = IngestReturn(putErr)
  /\ body' = DeferredClose(body)
  /\ ipc' = "done"
  /\ UNCHANGED <<idVars, fpc, jobID, calls, replies, clockVars, cancelVars, fetchErr, callNo>>
  /\ UNCHANGED <<queryVars, callVars, concVars, mainVars>>

\* the next Ingest run against the same bucket: a new process with its own
\* context, request and run identifier
IngestAgain ==
  /\ ipc = "done"
  /\ callNo < MaxCalls
  /\ callNo' = callNo + 1
  /\ runID' \in RunIDs
  /\ req' \in [Dataset : ValidDatasets, Date : Dates]
  /\ ipc' = "validate"
  /\ ingestErr' = NoError
  /\ fpc' = "idle"
  /\ jobID' = "none"
  /\ calls' = <<>>
  /\ replies' = <<>>
  /\ now' = 0
  /\ deadline' = 0
  /\ nextTick' = 0
  /\ tickPending' = FALSE
  /\ cancelled' = FALSE
  /\ cancelAt' = "never"
  /\ pollCtx' = "none"
  /\ fetchErr' = NoError
  /\ body' = NoStream
  /\ UNCHANGED <<puts, objects>>
  /\ UNCHANGED <<queryVars, callVars, concVars, mainVars>>

\* ------------------------------------------- the serving domain service
Variables == {"pm2p5", "pm10", "no2"}

\* the (ts, lat, lon) of the requests
QueryPoints == {[ts |-> 100, lat |-> 52, lon |-> 13], [ts |-> 200, lat |-> 75, lon |-> 106]}

\* the request lists: every sequence of at most MaxVars variable names
Requests == UNION {[1..n -> Variables] : n \in 0..MaxVars}

\* the GridValue the store holds for a variable near a point: the sample of
\* a grid point next to the requested one, taken before the requested time
GridValueOf(variable, q) ==
  [Value |-> <<"value of", variable>>, Unit |-> "ug/m3", Lat |-> q.lat - 1, Lon |-> q.lon + 1,
   Timestamp |-> q.ts - 30, CatalogID |-> <<"catalog of", variable>>]

\* what GridStore.GetValue can answer: a value, ErrGridValueNotFound, another
\* error, or no value with no error; under a cancelled context also its error
StoreOutcomes(ctx) ==
  {"value", "notfound", "error", "nilnil"} \cup (IF ctx = "live" THEN {} ELSE {"ctx"})

ZeroResult ==
  [Name |-> "", Value |-> <<>>, Unit |-> "", Timestamp |-> 0, Lat |-> 0, Lon |-> 0,
   CatalogID |-> <<>>]

ErrVariableNotFound(variable, q) ==
  [kind |-> "ErrVariableNotFound", Variable |-> variable, Timestamp |-> q.ts,
   Lat |-> q.lat, Lon |-> q.lon]

StoreErr(outcome) ==
  [kind |-> "error",
   text |-> <<IF outcome = "ctx" THEN "context canceled" ELSE "clickhouse failure">>]

getVariable_notFoundGeneric(variable, q, outcome) ==
  CASE outcome \in {"notfound", "error", "ctx"} ->
         [result |-> ZeroResult,
          err |-> [kind |-> "wrapped",
                   text |-> <<"getting variable", variable, ":">> \o StoreErr(outcome).text,
                   cause |-> StoreErr(outcome)]]
    [] OTHER ->
         LET gv == GridValueOf(variable, q) IN
         [result |-> [Name |-> variable, Value |-> gv.Value, Unit |-> gv.Unit,
                      Timestamp |-> gv.Timestamp, Lat |-> gv.Lat, Lon |-> gv.Lon,
                      CatalogID |-> gv.CatalogID],
          err |-> NoError]

getVariable_requestedPoint(variable, q, outcome) ==
  CASE outcome = "notfound" ->
         [result |-> ZeroResult, err |-> ErrVariableNotFound(variable, q)]
    [] outcome \in {"error", "ctx"} ->
         [result |-> ZeroResult,
          err |-> [kind |-> "wrapped",
                   text |-> <<"getting variable", variable, ":">> \o StoreErr(outcome).text,
                   cause |-> StoreErr(outcome)]]
    [] OTHER ->
         LET gv == GridValueOf(variable, q) IN
         [result |-> [Name |-> variable, Value |-> gv.Value, Unit |-> gv.Unit,
                      Timestamp |-> q.ts, Lat |-> q.lat, Lon |-> q.lon,
                      CatalogID |-> gv.CatalogID],
          err |-> NoError]

\* getVariable on the store's answer: [result, err]
getVariable(variable, q, outcome) ==
  CASE outcome = "notfound" ->
         [result |-> ZeroResult, err |-> ErrVariableNotFound(variable, q)]
    [] outcome \in {"error", "ctx"} ->
         [result |-> ZeroResult,
          err |-> [kind |-> "wrapped",
                   text |-> <<"getting variable", variable, ":">> \o StoreErr(outcome).text,
                   cause |-> StoreErr(outcome)]]
    [] OTHER ->
         LET gv == GridValueOf(variable, q) IN
         [result |-> [Name |-> variable, Value |-> gv.Value, Unit |-> gv.Unit,
                      Timestamp |-> gv.Timestamp, Lat |-> gv.Lat, Lon |-> gv.Lon,
                      CatalogID |-> gv.CatalogID],
          err |-> NoError]

SlotOf_completionOrder(i) == Len(order) + 1

SlotOf_firstOccurrence(i) ==
  CHOOSE j \in 1..i : reqVars[j] = reqVars[i] /\ \A k \in 1..(j - 1) : reqVars[k] # reqVars[i]

\* the slot the i-th lookup writes: results[i] = *result
SlotOf(i) == i

GroupRecord_lastWins(kept, err) == err

\* errgroup: the error of the first task to return one is kept
GroupRecord(kept, err) == IF kept = NoError THEN err ELSE kept

\* errgroup: the first error cancels the group's context
GroupCtxAfter(ctx, err) == IF err # NoError THEN "cancelled" ELSE ctx

WaitReturn_partial(err, slots) ==
  [nilResults |-> FALSE, results |-> slots, err |-> err]

\* g.Wait() and the two returns of GetVariables
WaitReturn(err, slots) ==
  IF err # NoError
    THEN [nilResults |-> TRUE, results |-> <<>>, err |-> err]
    ELSE [nilResults |-> FALSE, results |-> slots, err |-> NoError]

NoReturn == [nilResults |-> TRUE, results |-> <<>>, err |-> NoError]

QueryInit ==
  /\ reqVars \in Requests
  /\ qpoint \in QueryPoints
  /\ qpc = "running"
  /\ launched = 0
  /\ tpc = [i \in 1..Len(reqVars) |-> "idle"]
  /\ tout = [i \in 1..Len(reqVars) |-> "none"]
  /\ results = [i \in 1..Len(reqVars) |-> ZeroResult]
  /\ gErr = NoError
  /\ gCtx = "live"
  /\ reqCancelled = FALSE
  /\ order = <<>>
  /\ qRet = NoReturn

\* the serving service is not part of the ingestion process
QueryIdle ==
  /\ reqVars = <<>>
  /\ qpoint = [ts |-> 0, lat |-> 0, lon |-> 0]
  /\ qpc = "idle"
  /\ launched = 0
  /\ tpc = <<>>
  /\ tout = <<>>
  /\ results = <<>>
  /\ gErr = NoError
  /\ gCtx = "live"
  /\ reqCancelled = FALSE
  /\ order = <<>>
  /\ qRet = NoReturn

\* the ingestion process is not part of the serving service
IngestIdle ==
  /\ runID = <<>>
  /\ req = [Dataset |-> CAMSEuropeAirQualityForecastsAnalysis,
            Date |-> [y |-> 2025, m |-> 3, d |-> 12]]
  /\ ipc = "done"
  /\ ingestErr = NoError
  /\ fpc = "idle"
  /\ jobID = "none"
  /\ calls = <<>>
  /\ replies = <<>>
  /\ now = 0
  /\ deadline = 0
  /\ nextTick = 0
  /\ tickPending = FALSE
  /\ cancelled = FALSE
  /\ cancelAt = "never"
  /\ pollCtx = "none"
  /\ fetchErr = NoError
  /\ body = NoStream
  /\ puts = <<>>
  /\ objects = {}
  /\ callNo = 1

GroupCtxOnRequestCancel_detached(ctx) == ctx

\* errgroup.WithContext(ctx): the group's context is a child of the inbound
\* request's, so the request's cancellation cancels it
GroupCtxOnRequestCancel(ctx) == "cancelled"

\* the context lookup i passes to the store: the group's, which every
\* closure captures
LookupCtx(i) == gCtx

GroupWaitDone_loopEnd == launched = Len(reqVars)

\* g.Wait(): every lookup handed to g.Go has returned
GroupWaitDone ==
  /\ launched = Len(reqVars)
  /\ \A i \in 1..Len(reqVars) : tpc[i] = "finished"

\* the loop over vars: g.Go starts the next lookup, which calls the store
GoLookup ==
  /\ qpc = "running"
  /\ launched < Len(reqVars)
  /\ launched' = launched + 1
  /\ tpc' = [tpc EXCEPT ![launched + 1] = "inflight"]
  /\ UNCHANGED <<reqVars, qpoint, qpc, tout, results, gErr, gCtx, reqCancelled, order, qRet>>
  /\ UNCHANGED <<ingestVars, callVars, concVars, mainVars>>

\* the store answers lookup i and its task returns: a result into its slot,
\* or an error to the group; a nil value with a nil error is dereferenced
LookupReturn ==
  /\ qpc = "running"
  /\ \E i \in {k \in 1..Len(reqVars) : tpc[k] = "inflight"} :
     \E outcome \in StoreOutcomes(LookupCtx(i)) :
       /\ tpc[i] = "inflight"
       /\ tout' = [tout EXCEPT ![i] = outcome]
       /\ order' = Append(order, i)
       /\ tpc' = [tpc EXCEPT ![i] = "finished"]
       /\ IF outcome = "nilnil"
            THEN /\ qpc' = "panicked"
                 /\ UNCHANGED <<results, gErr, gCtx>>
            ELSE LET r == getVariable(reqVars[i], qpoint, outcome) IN
                 /\ qpc' = qpc
                 /\ gErr' = IF r.err # NoError THEN GroupRecord(gErr, r.err) ELSE gErr
                 /\ gCtx' = GroupCtxAfter(gCtx, r.err)
                 /\ results' = IF r.err = NoError
                                 THEN [results EXCEPT ![SlotOf(i)] = r.result]
                                 ELSE results
  /\ UNCHANGED <<reqVars, qpoint, launched, reqCancelled, qRet>>
  /\ UNCHANGED <<ingestVars, callVars, concVars, mainVars>>

\* the inbound request's context is cancelled
RequestCancel ==
  /\ qpc = "running"
  /\ ~reqCancelled
  /\ reqCancelled' = TRUE
  /\ gCtx' = GroupCtxOnRequestCancel(gCtx)
  /\ UNCHANGED <<reqVars, qpoint, qpc, launched, tpc, tout, results, gErr, order, qRet>>
  /\ UNCHANGED <<ingestVars, callVars, concVars, mainVars>>

\* g.Wait() returns once every lookup has returned
WaitReturns ==
  /\ qpc = "running"
  /\ GroupWaitDone
  /\ qRet' = WaitReturn(gErr, results)
  /\ qpc' = "returned"
  /\ gCtx' = "cancelled"
  /\ UNCHANGED <<reqVars, qpoint, launched, tpc, tout, results, gErr, reqCancelled, order>>
  /\ UNCHANGED <<ingestVars, callVars, concVars, mainVars>>

QueryNext ==
  \/ GoLookup
  \/ LookupReturn
  \/ RequestCancel
  \/ WaitReturns

\* no single function call is under way
CallIdle ==
  /\ pIn = [fn |-> "none"]
  /\ ppc = "idle"
  /\ pOut = [fn |-> "none"]

\* no concurrent Ingest calls are under way
ConcIdle ==
  /\ cc = <<>>
  /\ remote = <<>>

\* the ingestion command is not running
MainIdle ==
  /\ mflags = [dataset |-> <<>>, date |-> <<>>, runID |-> <<>>]
  /\ mpc = "idle"
  /\ msteps = <<>>
  /\ exitStatus = <<>>

InitQuery == QueryInit /\ IngestIdle /\ CallIdle /\ ConcIdle /\ MainIdle

SpecQuery == InitQuery /\ [][QueryNext]_vars

Init == IngestInit /\ QueryIdle /\ CallIdle /\ ConcIdle /\ MainIdle

Next ==
  \/ IngestStart
  \/ apiPostExecuteSend
  \/ apiPostExecuteReturn
  \/ Tick
  \/ Cancel
  \/ SelectDone
  \/ SelectTick
  \/ apiGetJobReturn
  \/ apiGetResultsReturn
  \/ apiDownloadAssetReturn
  \/ IngestPut

Spec == Init /\ [][Next]_vars

\* the ingestion process when time passes, the runtime lets the poll loop
\* take a ready case of its select, and every status request returns
SpecLive ==
  /\ Init
  /\ [][Next]_vars
  /\ WF_vars(Tick)
  /\ WF_vars(SelectDone)
  /\ WF_vars(SelectTick)
  /\ WF_vars(apiGetJobReturn)

\* successive Ingest runs on one bucket
NextAcquire ==
  \/ Next
  \/ IngestAgain

SpecAcquire == Init /\ [][NextAcquire]_vars

\* ------------------------------------------------ single function calls
\* run identifiers in the forms uuid.Parse reads, and near misses of them
RunV7Upper == [RunV7a EXCEPT ![6] = "C"]
RunBadHyphen == [RunV7a EXCEPT ![9] = "0"]
RunV1 == [RunV7a EXCEPT ![15] = "1"]

ParseBodies == {RunV7a, RunV7b, RunV7Upper, RunV4, RunV1, RunBadHex, RunBadHyphen}

RawHex(c) == SelectSeq(c, LAMBDA ch : ch # "-")

WrittenForms(c) ==
  {c,
   UrnPrefix \o c,
   [UrnPrefix EXCEPT ![1] = "U"] \o c,
   [UrnPrefix EXCEPT ![8] = "x"] \o c,
   <<"{">> \o c \o <<"}">>,
   <<"x">> \o c \o <<"y">>,
   RawHex(c),
   SubSeq(c, 1, 35),
   c \o <<"0">>}

ValidateInputs == RunIDs \cup UNION {WrittenForms(c) : c \in ParseBodies}

\* the fields of the keys that are rendered: sequences of characters
KeySources == {<<"a">>, <<"a", "/", "b">>}
KeyDatasets == {<<"d">>, <<"d", "/">>}
KeyDates == {<<"1">>}
KeyRunIDs == {<<>>, <<"r">>, <<"r", "/">>, <<"r", ".", "g">>, <<".">>}
KeyExtensions == {<<"g">>, <<"g", ".", "g">>}

ObjectKeys ==
  [Source : KeySources, Dataset : KeyDatasets, Date : KeyDates,
   RunID : KeyRunIDs, Extension : KeyExtensions]

\* pairs of keys that are equal or differ in the run identifier only
KeyPairs ==
  {pair \in ObjectKeys \X ObjectKeys :
     [pair[1] EXCEPT !.RunID = <<>>] = [pair[2] EXCEPT !.RunID = <<>>]}

\* the rows grid_data can hold (after FINAL): one per sorting key
\* (variable, timestamp, lat, lon)
GridRows ==
  {[variable |-> "pm2p5", timestamp |-> 10, lat |-> 0, lon |-> 0, id |-> "s1"],
   [variable |-> "pm2p5", timestamp |-> 10, lat |-> 2, lon |-> 0, id |-> "s2"],
   [variable |-> "pm2p5", timestamp |-> 20, lat |-> 5, lon |-> 5, id |-> "s3"],
   [variable |-> "pm10",  timestamp |-> 10, lat |-> 1, lon |-> 0, id |-> "s4"],
   [variable |-> "pm2p5", timestamp |-> 0,  lat |-> 1, lon |-> 0, id |-> "s5"],
   [variable |-> "pm2p5", timestamp |-> 30, lat |-> 1, lon |-> 0, id |-> "s6"]}

\* the queries GetValue is called with
GridQueries ==
  [variable : {"pm2p5", "no2"}, timestamp : {5, 10, 25}, lat : {0, 1}, lon : {0}]

SetMax(S) == CHOOSE m \in S : \A x \in S : x <= m

MaxTimestamp_ignoresRequest(rows, variable, timestamp) ==
  LET S == {r.timestamp : r \in {x \in rows : x.variable = variable}}
  IN  IF S = {} THEN 0 ELSE SetMax(S)

\* SELECT max(timestamp) FROM grid_data FINAL WHERE variable = @variable AND
\* timestamp <= @timestamp; max over no row is the DateTime default
MaxTimestamp(rows, variable, timestamp) ==
  LET S == {r.timestamp : r \in {x \in rows : x.variable = variable /\ x.timestamp <= timestamp}}
  IN  IF S = {} THEN 0 ELSE SetMax(S)

\* (lat - @lat) * (lat - @lat) + (lon - @lon) * (lon - @lon)
SqDist(r, lat, lon) == (r.lat - lat) * (r.lat - lat) + (r.lon - lon) * (r.lon - lon)

\* WHERE variable = @variable AND timestamp = (SELECT max ...)
Matching(rows, q) ==
  {r \in rows : /\ r.variable = q.variable
                /\ r.timestamp = MaxTimestamp(rows, q.variable, q.timestamp)}

\* ORDER BY the squared distance LIMIT 1: a row no other row precedes
FirstRows(rows, q) ==
  {r \in Matching(rows, q) :
     \A o \in Matching(rows, q) : SqDist(r, q.lat, q.lon) <= SqDist(o, q.lat, q.lon)}

\* Scan into the GridValue
ScanRow(r) ==
  [Value |-> <<"value", r.id>>, Unit |-> "ug/m3", Lat |-> r.lat, Lon |-> r.lon,
   CatalogID |-> <<"catalog", r.id>>, Timestamp |-> r.timestamp]

ErrNoRows == [kind |-> "error", text |-> <<"sql: no rows in result set">>]
ErrGridValueNotFound == [kind |-> "error", text |-> <<"grid value not found">>]
DriverErr == [kind |-> "error", text |-> <<"clickhouse: connection refused">>]
NilGridValue == [Value |-> <<>>, Unit |-> "", Lat |-> 0, Lon |-> 0, CatalogID |-> <<>>, Timestamp |-> 0]

GetValueReturn_allNotFound(scanErr, gridValue) ==
  IF scanErr # NoError
    THEN [nil |-> TRUE, value |-> NilGridValue, err |-> ErrGridValueNotFound]
    ELSE [nil |-> FALSE, value |-> gridValue, err |-> NoError]

\* GetValue after the Scan: ErrNoRows becomes ErrGridValueNotFound, another
\* error is returned as it is, else the scanned value
GetValueReturn(scanErr, gridValue) ==
  IF scanErr = ErrNoRows
    THEN [nil |-> TRUE, value |-> NilGridValue, err |-> ErrGridValueNotFound]
  ELSE IF scanErr # NoError
    THEN [nil |-> TRUE, value |-> NilGridValue, err |-> scanErr]
  ELSE [nil |-> FALSE, value |-> gridValue, err |-> NoError]

\* the serving API: requests to the mux, as [method, path, query]
HTTPMethods == {"GET", "HEAD", "POST"}
HTTPPaths == {"/health", "/v1/environmental"}
QueryOK ==
  [lat |-> <<"52.52">>, lon |-> <<"13.40">>, time |-> <<"2025-03-12T14:55:00Z">>,
   vars |-> <<"pm2p5", ",", "pm10">>]
HTTPQueries ==
  {QueryOK,
   [QueryOK EXCEPT !.lat = <<"abc">>],
   [QueryOK EXCEPT !.lat = <<"95.0">>],
   [QueryOK EXCEPT !.time = <<"yesterday">>],
   [QueryOK EXCEPT !.vars = <<>>],
   [lat |-> <<>>, lon |-> <<>>, time |-> <<>>, vars |-> <<>>]}

\* handleHealth: w.WriteHeader(http.StatusNoContent)
handleHealth == [status |-> 204, contentType |-> "", body |-> <<>>]

\* the routes RegisterRoutes attaches: pattern "GET /health" (GET also
\* serves HEAD)
Routes == {[methods |-> {"GET", "HEAD"}, path |-> "/health"]}

\* http.ServeMux: the handler of the matching route; 405 for a known path
\* under another method; 404, as plain text, for any other path
ServeMuxServeHTTP(r) ==
  IF \E rt \in Routes : rt.path = r.path /\ r.method \in rt.methods
    THEN handleHealth
  ELSE IF \E rt \in Routes : rt.path = r.path
    THEN [status |-> 405, contentType |-> "text/plain; charset=utf-8",
          body |-> <<"Method Not Allowed">>]
  ELSE [status |-> 404, contentType |-> "text/plain; charset=utf-8",
        body |-> <<"404 page not found">>]

CallInit ==
  /\ pIn \in [fn : {"Validate"}, r : ValidateInputs]
            \cup [fn : {"Key"}, pair : KeyPairs]
            \cup [fn : {"GetValue"}, rows : SUBSET GridRows, q : GridQueries]
            \cup [fn : {"ServeHTTP"}, method : HTTPMethods, path : HTTPPaths,
                  query : HTTPQueries]
  /\ ppc = "call"
  /\ pOut = [fn |-> "none"]

\* RunID.Validate
RunIDValidateCall ==
  /\ ppc = "call"
  /\ pIn.fn = "Validate"
  /\ pOut' = [fn |-> "Validate", err |-> RunIDValidate(pIn.r)]
  /\ ppc' = "returned"
  /\ UNCHANGED <<pIn, ingestVars, queryVars, concVars, mainVars>>

\* ObjectKey.Key on both keys, and on the first once more
ObjectKeyKeyCall ==
  /\ ppc = "call"
  /\ pIn.fn = "Key"
  /\ pOut' = [fn |-> "Key", first |-> ObjectKeyKey(pIn.pair[1]),
              second |-> ObjectKeyKey(pIn.pair[2]), again |-> ObjectKeyKey(pIn.pair[1])]
  /\ ppc' = "returned"
  /\ UNCHANGED <<pIn, ingestVars, queryVars, concVars, mainVars>>

\* clickhouse Client.GetValue: the query runs or the backend fails
GetValueCall ==
  /\ ppc = "call"
  /\ pIn.fn = "GetValue"
  /\ \/ /\ FirstRows(pIn.rows, pIn.q) = {}
        /\ pOut' = [fn |-> "GetValue", backend |-> "answered",
                    ret |-> GetValueReturn(ErrNoRows, NilGridValue)]
     \/ \E r \in FirstRows(pIn.rows, pIn.q) :
          pOut' = [fn |-> "GetValue", backend |-> "answered",
                   ret |-> GetValueReturn(NoError, ScanRow(r))]
     \/ pOut' = [fn |-> "GetValue", backend |-> "failed",
                 ret |-> GetValueReturn(DriverErr, NilGridValue)]
  /\ ppc' = "returned"
  /\ UNCHANGED <<pIn, ingestVars, queryVars, concVars, mainVars>>

\* the serving mux answers a request
ServeHTTPCall ==
  /\ ppc = "call"
  /\ pIn.fn = "ServeHTTP"
  /\ pOut' = [fn |-> "ServeHTTP", response |-> ServeMuxServeHTTP(pIn)]
  /\ ppc' = "returned"
  /\ UNCHANGED <<pIn, ingestVars, queryVars, concVars, mainVars>>

NextCall ==
  \/ RunIDValidateCall
  \/ ObjectKeyKeyCall
  \/ GetValueCall
  \/ ServeHTTPCall

InitCall == CallInit /\ IngestIdle /\ QueryIdle /\ ConcIdle /\ MainIdle

SpecCall == InitCall /\ [][NextCall]_vars

\* ------------------------------------------- Ingest calls side by side
\* the callers that run Ingest at the same time on one Service and Client
Callers == {1, 2}

\* the status polls a call can make before its poll deadline
PollsBeforeDeadline == (PollTimeout - 1) \div PollInterval

\* the asset the remote API holds for a job
AssetOf(j) == IF j = "job-1" THEN "grib-bytes of job-1" ELSE "grib-bytes of job-2"

\* the ingestion variables of the single call, the bucket aside
ingestLocalVars ==
  <<runID, req, ipc, ingestErr, fpc, jobID, calls, replies, now, deadline, nextTick,
    tickPending, cancelled, cancelAt, pollCtx, fetchErr, body, callNo>>

ConcInit ==
  /\ cc \in [Callers -> [runID : RunIDs, req : [Dataset : ValidDatasets, Date : Dates],
                         pc : {"validate"}, jobID : {"none"}, polls : {0}, named : {{}},
                         body : {NoStream}, err : {NoError}]]
  /\ \A a \in Callers, b \in Callers : a # b => cc[a].runID # cc[b].runID
  /\ remote = <<>>

RequestJob_lastIssued(c) == remote[Len(remote)]

\* the job id a call names in its requests: job.JobID of its own submit in
\* the status requests, completedJob.JobID of the status answer for that job
\* in the results request
RequestJob(c) == cc[c].jobID

\* fmt.Errorf("fetch: %w", err) over the client's error for a step
IngestFetchErr(context) ==
  [kind |-> "wrapped",
   text |-> <<"fetch:">> \o ErrText(toClientError(TransportErr, context)),
   cause |-> toClientError(TransportErr, context)]

CallKey(c) ==
  ObjectKeyKey([Source |-> FetchSource, Dataset |-> cc[c].req.Dataset,
                Date |-> FormatDate(cc[c].req.Date), RunID |-> cc[c].runID,
                Extension |-> FetchExtension])

CallEnds(c, err) == cc' = [cc EXCEPT ![c].pc = "done", ![c].err = err]

\* Ingest: runID.Validate()
CallValidate(c) ==
  /\ cc[c].pc = "validate"
  /\ IF RunIDValidate(cc[c].runID) # NoError
       THEN CallEnds(c, RunIDValidate(cc[c].runID))
       ELSE cc' = [cc EXCEPT ![c].pc = "submit"]
  /\ UNCHANGED <<remote, puts, objects>>

\* apiPostExecute: the remote API issues a job id of its own to the request
CallSubmit(c) ==
  /\ cc[c].pc = "submit"
  /\ \/ \E j \in JobIDs :
          /\ \A k \in 1..Len(remote) : remote[k] # j
          /\ remote' = Append(remote, j)
          /\ cc' = [cc EXCEPT ![c].pc = "wait", ![c].jobID = j]
     \/ /\ CallEnds(c, IngestFetchErr("failed to submit execute request"))
        /\ UNCHANGED remote
  /\ UNCHANGED <<puts, objects>>

\* waitForCompletion: a tick, apiGetJob and the switch on the status
CallPoll(c) ==
  /\ cc[c].pc = "wait"
  /\ cc[c].polls < PollsBeforeDeadline
  /\ \/ \E st \in JobStates :
          CASE JobSwitch(st) = "return" ->
                 cc' = [cc EXCEPT ![c].pc = "results", ![c].polls = @ + 1,
                                  ![c].named = @ \cup {RequestJob(c)}]
            [] JobSwitch(st) = "fail" ->
                 cc' = [cc EXCEPT ![c].pc = "done", ![c].polls = @ + 1,
                                  ![c].named = @ \cup {RequestJob(c)},
                                  ![c].err = IngestFetchErr("failed to wait for job completion")]
            [] OTHER ->
                 cc' = [cc EXCEPT ![c].polls = @ + 1, ![c].named = @ \cup {RequestJob(c)}]
     \/ cc' = [cc EXCEPT ![c].pc = "done", ![c].polls = @ + 1,
                         ![c].named = @ \cup {RequestJob(c)},
                         ![c].err = IngestFetchErr("failed to wait for job completion")]
  /\ UNCHANGED <<remote, puts, objects>>

\* waitForCompletion: the poll context is done
CallGiveUp(c) ==
  /\ cc[c].pc = "wait"
  /\ CallEnds(c, IngestFetchErr("failed to wait for job completion"))
  /\ UNCHANGED <<remote, puts, objects>>

\* apiGetResults and apiDownloadAsset: the asset of the job that was named
CallDownload(c) ==
  /\ cc[c].pc = "results"
  /\ \/ cc' = [cc EXCEPT ![c].pc = "put", ![c].named = @ \cup {RequestJob(c)},
                         ![c].body = DownloadBody(AssetOf(RequestJob(c)))]
     \/ cc' = [cc EXCEPT ![c].pc = "done", ![c].named = @ \cup {RequestJob(c)},
                         ![c].err = IngestFetchErr("failed to get job results")]
     \/ cc' = [cc EXCEPT ![c].pc = "done", ![c].named = @ \cup {RequestJob(c)},
                         ![c].err = IngestFetchErr("failed to download asset")]
  /\ UNCHANGED <<remote, puts, objects>>

\* Ingest: the Put under the call's key, the deferred Close, the return
CallPut(c) ==
  /\ cc[c].pc = "put"
  /\ \E putErr \in PutErrs :
       /\ puts' = Append(puts, [key |-> CallKey(c), ok |-> putErr = NoError,
                                runID |-> cc[c].runID, req |-> cc[c].req])
       /\ objects' = IF putErr = NoError
                       THEN PutObject(objects, CallKey(c), cc[c].body.content)
                       ELSE objects
       /\ cc' = [cc EXCEPT ![c].pc = "done", ![c].err = IngestReturn(putErr),
                           ![c].body = DeferredClose(@)]
  /\ UNCHANGED remote

NextConcurrent ==
  \/ \E c \in Callers : CallValidate(c) /\ UNCHANGED <<ingestLocalVars, queryVars, callVars, mainVars>>
  \/ \E c \in Callers : CallSubmit(c) /\ UNCHANGED <<ingestLocalVars, queryVars, callVars, mainVars>>
  \/ \E c \in Callers : CallPoll(c) /\ UNCHANGED <<ingestLocalVars, queryVars, callVars, mainVars>>
  \/ \E c \in Callers : CallGiveUp(c) /\ UNCHANGED <<ingestLocalVars, queryVars, callVars, mainVars>>
  \/ \E c \in Callers : CallDownload(c) /\ UNCHANGED <<ingestLocalVars, queryVars, callVars, mainVars>>
  \/ \E c \in Callers : CallPut(c) /\ UNCHANGED <<ingestLocalVars, queryVars, callVars, mainVars>>

InitConcurrent == ConcInit /\ IngestIdle /\ QueryIdle /\ CallIdle /\ MainIdle

SpecConcurrent == InitConcurrent /\ [][NextConcurrent]_vars

\* ------------------------------------------------ the ingestion command
\* the exit codes of the ingestion CLI
Success == 0
ConfigError == 1
\* the status main exits with when Ingest fails; distinct from the two above
ApplicationError == 2

\* the -dataset flags: the known identifiers, an unknown one, the empty one
DatasetFlags == ValidDatasets \cup {<<"cams-global-reanalysis-eac4">>, <<>>}

\* the -date flags: well-formed dates, and an unpadded month, a month and a
\* day out of range, and another layout
DateFlags ==
  {FormatDate(dt) : dt \in Dates}
    \cup {<<"2","0","2","5","-","3","-","1","2">>,
          <<"2","0","2","5","-","1","3","-","0","1">>,
          <<"2","0","2","5","-","0","2","-","3","0">>,
          <<"1","2","/","0","3","/","2","0","2","5">>}

IsDigit(c) == \E n \in 1..10 : DigitTok[n] = c
DigitVal(c) == CHOOSE n \in 0..9 : DigitTok[n + 1] = c

\* the days of a month
DaysIn(y, m) ==
  CASE m \in {4, 6, 9, 11} -> 30
    [] m = 2 -> IF y % 4 = 0 /\ (y % 100 # 0 \/ y % 400 = 0) THEN 29 ELSE 28
    [] OTHER -> 31

\* time.Parse("2006-01-02", s): four digits, "-", two digits, "-", two
\* digits and nothing after; the month and the day in range
TimeParse(s) ==
  IF Len(s) # 10
    THEN [ok |-> FALSE, date |-> [y |-> 0, m |-> 0, d |-> 0]]
  ELSE IF \E i \in 1..10 : IF i \in {5, 8} THEN s[i] # "-" ELSE ~IsDigit(s[i])
    THEN [ok |-> FALSE, date |-> [y |-> 0, m |-> 0, d |-> 0]]
  ELSE LET y == 1000 * DigitVal(s[1]) + 100 * DigitVal(s[2]) + 10 * DigitVal(s[3]) + DigitVal(s[4])
           m == 10 * DigitVal(s[6]) + DigitVal(s[7])
           d == 10 * DigitVal(s[9]) + DigitVal(s[10])
       IN IF m \notin 1..12 \/ d < 1 \/ d > DaysIn(y, m)
            THEN [ok |-> FALSE, date |-> [y |-> 0, m |-> 0, d |-> 0]]
            ELSE [ok |-> TRUE, date |-> [y |-> y, m |-> m, d |-> d]]

DatasetValidate_acceptsAll(d) == NoError

\* Dataset.Validate: membership in ValidDatasets
DatasetValidate(d) ==
  IF d \in ValidDatasets
    THEN NoError
    ELSE [kind |-> "error", text |-> <<"unknown dataset">> \o d \o <<", valid options">>]

\* main's flag checks, in order: the one that stops it, or "none"
FlagsError(f) ==
  IF DatasetValidate(f.dataset) # NoError THEN "invalid dataset"
  ELSE IF ~TimeParse(f.date).ok THEN "invalid date format"
  ELSE IF f.runID = <<>> THEN "run-id is required"
  ELSE IF RunIDValidate(f.runID) # NoError THEN "invalid run-id"
  ELSE "none"

\* config.Load: the first required environment variable that is not set
ErrMissingRequiredEnvVar(name) == [kind |-> "ErrMissingRequiredEnvVar", Name |-> name]
ConfigLoadErrs ==
  {NoError, ErrMissingRequiredEnvVar("ADS_BASE_URL"), ErrMissingRequiredEnvVar("MINIO_BUCKET")}

\* NewMinIOClient: minio.New fails, BucketExists fails, the bucket exists,
\* the bucket is made, MakeBucket fails
MinIOInitOutcomes == {"newerr", "existserr", "exists", "made", "makeerr"}

\* what NewMinIOClient does: minio.New, then its requests to the object store
NewMinIOClientSteps(o) ==
  CASE o = "newerr" -> <<[step |-> "minio.New", ok |-> FALSE]>>
    [] o = "existserr" -> <<[step |-> "minio.New", ok |-> TRUE],
                            [step |-> "storage.BucketExists", ok |-> FALSE]>>
    [] o = "exists" -> <<[step |-> "minio.New", ok |-> TRUE],
                         [step |-> "storage.BucketExists", ok |-> TRUE]>>
    [] o = "made" -> <<[step |-> "minio.New", ok |-> TRUE],
                       [step |-> "storage.BucketExists", ok |-> TRUE],
                       [step |-> "storage.MakeBucket", ok |-> TRUE]>>
    [] OTHER -> <<[step |-> "minio.New", ok |-> TRUE],
                  [step |-> "storage.BucketExists", ok |-> TRUE],
                  [step |-> "storage.MakeBucket", ok |-> FALSE]>>

\* the error NewMinIOClient returns
NewMinIOClientErr(o) ==
  CASE o = "newerr" -> [kind |-> "wrapped", text |-> <<"failed to create minio client:", "minio failure">>]
    [] o = "existserr" -> [kind |-> "wrapped", text |-> <<"failed to check bucket existence:", "minio failure">>]
    [] o = "makeerr" -> [kind |-> "wrapped", text |-> <<"failed to create bucket:", "minio failure">>]
    [] OTHER -> NoError

StoreInitExit_applicationError(err) == <<ApplicationError>>

\* main after NewMinIOClient: os.Exit(exitcode.ConfigError) on an error
StoreInitExit(err) == IF err # NoError THEN <<ConfigError>> ELSE <<>>

IngestExit_alwaysSuccess(err) == <<Success>>

\* main after Ingest: os.Exit(exitcode.ApplicationError) on an error, else
\* main returns
IngestExit(err) == IF err # NoError THEN <<ApplicationError>> ELSE <<Success>>

MainInit ==
  /\ mflags \in [dataset : DatasetFlags, date : DateFlags, runID : RunIDs]
  /\ mpc = "flags"
  /\ msteps = <<>>
  /\ exitStatus = <<>>

\* main: Dataset.Validate, time.Parse, the run-id tests
MainValidateFlags ==
  /\ mpc = "flags"
  /\ msteps' = Append(msteps, [step |-> "flags", ok |-> FlagsError(mflags) = "none"])
  /\ IF FlagsError(mflags) # "none"
       THEN /\ mpc' = "exited"
            /\ exitStatus' = <<ConfigError>>
       ELSE /\ mpc' = "config"
            /\ UNCHANGED exitStatus
  /\ UNCHANGED mflags
  /\ UNCHANGED <<ingestVars, queryVars, callVars, concVars>>

\* main: godotenv.Load (a failure is only logged), config.Load
MainLoadConfig ==
  /\ mpc = "config"
  /\ \E err \in ConfigLoadErrs :
       /\ msteps' = Append(msteps, [step |-> "config", ok |-> err = NoError])
       /\ IF err # NoError
            THEN /\ mpc' = "exited"
                 /\ exitStatus' = <<ConfigError>>
            ELSE /\ mpc' = "minio"
                 /\ UNCHANGED exitStatus
  /\ UNCHANGED mflags
  /\ UNCHANGED <<ingestVars, queryVars, callVars, concVars>>

\* main: signal.NotifyContext, cds.NewClient, storage.NewMinIOClient
MainNewMinIOClient ==
  /\ mpc = "minio"
  /\ \E o \in MinIOInitOutcomes :
       /\ msteps' = msteps \o NewMinIOClientSteps(o)
       /\ exitStatus' = StoreInitExit(NewMinIOClientErr(o))
       /\ mpc' = IF NewMinIOClientErr(o) # NoError THEN "exited" ELSE "ingest"
  /\ UNCHANGED mflags
  /\ UNCHANGED <<ingestVars, queryVars, callVars, concVars>>

\* main calls svc.Ingest(ctx, req, runID); a signal may have cancelled ctx
MainIngest ==
  /\ mpc = "ingest"
  /\ mpc' = "ingesting"
  /\ msteps' = Append(msteps, [step |-> "Ingest", ok |-> TRUE])
  /\ runID' = mflags.runID
  /\ req' = [Dataset |-> mflags.dataset, Date |-> TimeParse(mflags.date).date]
  /\ ipc' = "validate"
  /\ \E sig \in BOOLEAN :
       /\ cancelled' = sig
       /\ cancelAt' = IF sig THEN "idle" ELSE "never"
  /\ UNCHANGED <<ingestErr, fpc, jobID, calls, replies, clockVars, fetchErr, body, storeVars>>
  /\ UNCHANGED <<mflags, exitStatus>>
  /\ UNCHANGED <<queryVars, callVars, concVars>>

\* Ingest returned: os.Exit(exitcode.ApplicationError), or main returns
MainExit ==
  /\ mpc = "ingesting"
  /\ ipc = "done"
  /\ mpc' = "exited"
  /\ exitStatus' = IngestExit(ingestErr)
  /\ UNCHANGED <<mflags, msteps>>
  /\ UNCHANGED <<ingestVars, queryVars, callVars, concVars>>

NextMain ==
  \/ MainValidateFlags
  \/ MainLoadConfig
  \/ MainNewMinIOClient
  \/ MainIngest
  \/ MainExit
  \/ Next

InitMain == MainInit /\ IngestIdle /\ QueryIdle /\ CallIdle /\ ConcIdle

SpecMain == InitMain /\ [][NextMain]_vars


\* ---------------------------------------------------------------- claims
Contains(seq, tok) == \E i \in 1..Len(seq) : seq[i] = tok
CallsTo(ep) == {k \in 1..Len(calls) : calls[k].ep = ep}
StatusReplies == {k \in 1..Len(replies) : replies[k].ep = "status"}
ValidV7RunIDs == {RunV7a, RunV7b}

\* C1: the endpoints are called in the order submit, status polls, results,
\* download, each step only after the previous one succeeded: the submit is
\* the first call; a status poll follows only a submit that returned a job
\* and only submit or status calls; the results call directly follows a
\* status poll that reported successful; the download directly follows a
\* results call that succeeded.
C1_FetchStepOrder ==
  /\ Len(replies) \in {Len(calls), Len(calls) - 1}
  /\ \A k \in 1..Len(calls) :
       /\ calls[k].ep = "submit" => k = 1
       /\ calls[k].ep = "status" =>
            /\ k > 1
            /\ replies[1] = Reply("submit", "ok")
            /\ jobID \in JobIDs
            /\ \A j \in 1..(k - 1) : calls[j].ep \in {"submit", "status"}
       /\ calls[k].ep = "results" =>
            /\ k > 1
            /\ replies[k - 1] = Reply("status", jobStateSuccessful)
       /\ calls[k].ep = "download" =>
            /\ k > 1
            /\ replies[k - 1] = Reply("results", "ok")

\* a whole Fetch: a submit, two status polls, the results, the download
C1_Witness ==
  /\ fpc = "done"
  /\ fetchErr = NoError
  /\ Len(calls) = 5
  /\ calls[2].ep = "status" /\ calls[3].ep = "status"
  /\ calls[4].ep = "results" /\ calls[5].ep = "download"

C5_FailedRejectedTerminal ==
  \A k \in StatusReplies :
    replies[k].outcome \in {jobStateFailed, jobStateRejected} =>
      /\ k = Len(replies)
      /\ Len(calls) = k
      /\ CallsTo("results") = {} /\ CallsTo("download") = {}
      /\ fpc = "done"
      /\ body = NoStream
      /\ fetchErr.kind = "ClientError"
      /\ Contains(fetchErr.Message, jobID)
      /\ Contains(fetchErr.Message, replies[k].outcome)
      /\ Contains(fetchErr.Message, "failed with status:")

\* the second status poll reported rejected
C5_Witness ==
  /\ Len(replies) = 3
  /\ replies[2] = Reply("status", jobStateRunning)
  /\ replies[3] = Reply("status", jobStateRejected)

\* C6: a status poll that reports dismissed ends the loop like failed and
\* rejected do: it is the last request and Fetch fails naming the job id and
\* the state dismissed.
C6_DismissedTerminal ==
  \A k \in StatusReplies :
    replies[k].outcome = jobStateDismissed =>
      /\ k = Len(replies)
      /\ Len(calls) = k
      /\ fpc = "done"
      /\ fetchErr.kind = "ClientError"
      /\ Contains(fetchErr.Message, jobID)
      /\ Contains(fetchErr.Message, jobStateDismissed)

NonTerminalOnly ==
  \A k \in StatusReplies : replies[k].outcome \in {jobStateAccepted, jobStateRunning}

DeadlineExceededReturned ==
  /\ fetchErr.kind = "ClientError"
  /\ Contains(fetchErr.Message, "context deadline exceeded")
  /\ body = NoStream
  /\ CallsTo("results") = {} /\ CallsTo("download") = {}

\* C7 as stated: when the submit returned a job and every status poll
\* reported accepted or running, Fetch ends with a deadline-exceeded error
\* and without a results or download call.
C7_DeadlineExceeded_Original ==
  (fpc = "done" /\ jobID \in JobIDs /\ NonTerminalOnly) => DeadlineExceededReturned

\* C7 amended: the same, for a Fetch whose caller did not cancel the context.
C7_DeadlineExceeded ==
  (fpc = "done" /\ jobID \in JobIDs /\ NonTerminalOnly /\ ~cancelled)
    => DeadlineExceededReturned

\* two polls reported running and the Fetch ended on the deadline
C7_Witness ==
  /\ fpc = "done"
  /\ ~cancelled
  /\ Len(replies) = 3
  /\ replies[2] = Reply("status", jobStateRunning)
  /\ replies[3] = Reply("status", jobStateRunning)
  /\ now >= deadline

\* C8: no status query reaches the API once the poll deadline has elapsed,
\* also when the loop takes the tick that became ready with the deadline.
C8_NoPollAfterDeadline ==
  \A k \in CallsTo("status") : calls[k].at < deadline

\* the tick and the deadline were ready together and the loop took the tick:
\* the status request was refused unsent by its expired context
C8_Witness ==
  /\ fpc = "done"
  /\ now = deadline
  /\ pollCtx = "deadline"
  /\ ~tickPending
  /\ fetchErr = toClientError(TransportCtxErr("Get", "deadline"),
                              "failed to wait for job completion")
  /\ replies[Len(replies)].outcome # "ctxerr"

\* C9: when the caller cancels while the loop waits between polls, the loop
\* can return at once (the Done case is ready whatever the clock says), no
\* further request is sent, and Fetch ends with the context's error (the
\* cancellation, unless the deadline had already elapsed) and no stream.
C9_CancelWhileWaiting ==
  cancelAt = "select" =>
    /\ fpc \in {"select", "done"}
    /\ fpc = "select" => ENABLED SelectDone
    /\ \A k \in 1..Len(calls) : ~calls[k].cancelled
    /\ CallsTo("results") = {} /\ CallsTo("download") = {}
    /\ puts = <<>>
    /\ body = NoStream
    /\ fpc = "done" => /\ fetchErr.kind = "ClientError"
                       /\ Contains(fetchErr.Message,
                                   IF pollCtx = "deadline" THEN "context deadline exceeded"
                                                           ELSE "context canceled")
                       /\ ipc = "done"
                       /\ ingestErr # NoError

\* cancelled in the select well before the deadline, and Fetch has returned
C9_Witness ==
  /\ cancelAt = "select"
  /\ fpc = "done"
  /\ now < deadline
  /\ Len(calls) = 2
  /\ Contains(fetchErr.Message, "context canceled")

Failed == {i \in 1..Len(reqVars) : tout[i] \in {"notfound", "error", "ctx"}}
OwnFailures == {i \in 1..Len(reqVars) : tout[i] \in {"notfound", "error"}}

\* C2: when GetVariables returns and a lookup failed, it returns a nil list
\* and an error; when the request was not cancelled and every lookup that
\* failed on its own account is a not-found for one variable, the error is
\* the variable-not-found error of that variable.
C2_AllOrNothing ==
  (qpc = "returned" /\ Failed # {}) =>
    /\ qRet.nilResults
    /\ qRet.results = <<>>
    /\ qRet.err # NoError
    /\ \A b \in Variables :
         (/\ ~reqCancelled
          /\ OwnFailures # {}
          /\ \A i \in OwnFailures : tout[i] = "notfound" /\ reqVars[i] = b)
         => /\ qRet.err.kind = "ErrVariableNotFound"
            /\ qRet.err.Variable = b

\* [A, B]: A resolved, B was not found
C2_Witness ==
  /\ qpc = "returned"
  /\ Len(reqVars) = 2
  /\ reqVars[1] # reqVars[2]
  /\ tout = <<"value", "notfound">>

\* C3: when every lookup succeeded, GetVariables returns one result per
\* requested variable, the i-th being the i-th variable's, whatever the
\* order the lookups finished in.
C3_RequestOrder ==
  (qpc = "returned" /\ qRet.err = NoError) =>
    /\ ~qRet.nilResults
    /\ Len(qRet.results) = Len(reqVars)
    /\ \A i \in 1..Len(reqVars) :
         /\ qRet.results[i].Name = reqVars[i]
         /\ qRet.results[i].Value = GridValueOf(reqVars[i], qpoint).Value

\* three different variables, the last one finished first
C3_Witness ==
  /\ qpc = "returned"
  /\ qRet.err = NoError
  /\ Len(reqVars) = 3
  /\ Cardinality({reqVars[i] : i \in 1..3}) = 3
  /\ order = <<3, 2, 1>>

FailOrder == SelectSeq(order, LAMBDA i : tout[i] \in {"notfound", "error", "ctx"})
TaskErr(i) == getVariable(reqVars[i], qpoint, tout[i]).err

\* C10: from the first failure on the group's context is cancelled, the
\* error the group keeps is that first failure's, and it is the error
\* GetVariables returns.
C10_FirstFailureWins ==
  (qpc # "panicked" /\ FailOrder # <<>>) =>
    /\ gCtx = "cancelled"
    /\ gErr = TaskErr(FailOrder[1])
    /\ qpc = "returned" => qRet.err = TaskErr(FailOrder[1])

\* a not-found first, then a sibling that failed because it was cancelled
C10_Witness ==
  /\ qpc = "returned"
  /\ Len(FailOrder) >= 2
  /\ tout[FailOrder[1]] = "notfound"
  /\ tout[FailOrder[2]] = "ctx"
  /\ reqVars[FailOrder[1]] # reqVars[FailOrder[2]]

\* ------------------------------------------------ claims C11 to C20
\* C11: GetVariables called with an empty variable list returns an error
\* and not an empty successful result.
C11_EmptyListRejected ==
  (qpc = "returned" /\ reqVars = <<>>) => qRet.err # NoError

\* C12: Ingest returns success only when the Put it issued reported success;
\* a successful call issued exactly one Put, at the computed key; a call
\* whose Fetch failed issued none; the bucket holds exactly the keys of the
\* Puts that succeeded (nothing is deleted), Put being the only storage
\* operation.
C12_OnePutPerSuccess ==
  /\ Len(puts) <= 1
  /\ (ipc = "done" /\ ingestErr = NoError) =>
       /\ Len(puts) = 1
       /\ puts[1].ok
       /\ puts[1].key = IngestKey
  /\ fetchErr # NoError => puts = <<>>
  /\ {o.key : o \in objects} = {puts[k].key : k \in {j \in 1..Len(puts) : puts[j].ok}}

\* Ingest returned success after a Put that stored the asset
C12_Witness ==
  /\ ipc = "done"
  /\ ingestErr = NoError
  /\ Len(puts) = 1
  /\ objects = {[key |-> IngestKey, content |-> "grib-bytes"]}

\* C13: over successive Ingest runs no Put targets a key that an earlier Put
\* wrote, whatever run identifiers the caller passes.
C13_NoOverwrite ==
  \A i \in 1..Len(puts), j \in 1..Len(puts) :
    (i < j /\ puts[i].ok) => puts[j].key # puts[i].key

\* C14: two successful Ingest runs for the same dataset and date and with
\* different run identifiers wrote two different keys, and the bucket holds
\* an object under each of them.
C14_DistinctRunsDistinctObjects ==
  \A i \in 1..Len(puts), j \in 1..Len(puts) :
    (/\ i < j
     /\ puts[i].ok /\ puts[j].ok
     /\ puts[i].req = puts[j].req
     /\ puts[i].runID # puts[j].runID) =>
      /\ puts[i].key # puts[j].key
      /\ \E o \in objects : o.key = puts[i].key
      /\ \E o \in objects : o.key = puts[j].key
      /\ Cardinality(objects) >= 2

\* two runs stored the same dataset and date under two run identifiers
C14_Witness ==
  /\ Len(puts) = 2
  /\ puts[1].ok /\ puts[2].ok
  /\ puts[1].req = puts[2].req
  /\ puts[1].runID = RunV7a /\ puts[2].runID = RunV7b
  /\ Cardinality(objects) = 2

\* C15: a stream Ingest got from the fetcher is open only while Ingest runs:
\* once Ingest has returned, with success, with a storage error or with a
\* fetch error, no stream is open.
C15_StreamClosedOnReturn ==
  /\ ipc = "done" => ~body.open
  /\ body.open => ipc = "put"

\* the Put failed and the stream Fetch had returned is closed
C15_Witness ==
  /\ ipc = "done"
  /\ Len(puts) = 1
  /\ ~puts[1].ok
  /\ body.content = "grib-bytes"
  /\ ~body.open

\* C16: the error Fetch returns wraps the failing step's error: unwrapping
\* it gives the inner error.
C16_InnerErrorPreserved ==
  (fpc = "done" /\ fetchErr # NoError) => Unwrap(fetchErr) # NoError

\* what a caller can make of a returned error, reading even its message
FailureClass(e) ==
  CASE e.kind # "ClientError" -> "none"
    [] Contains(e.Message, "(status") -> "api error"
    [] Contains(e.Message, "failed with status:") -> "job failed"
    [] Contains(e.Message, "context deadline exceeded") -> "deadline exceeded"
    [] OTHER -> "other"

\* C17: in a Fetch its caller did not cancel, a refused submission ends with
\* an API error, a job reported failed, rejected or dismissed with a
\* job-failed error, and a deadline that elapsed over non-terminal reports
\* with a deadline-exceeded error.
C17_ThreeFailureKinds ==
  (fpc = "done" /\ ~cancelled) =>
    /\ (replies # <<>> /\ replies[1] = Reply("submit", "badstatus")) =>
         FailureClass(fetchErr) = "api error"
    /\ (\E k \in StatusReplies :
          replies[k].outcome \in {jobStateFailed, jobStateRejected, jobStateDismissed}) =>
         FailureClass(fetchErr) = "job failed"
    /\ (jobID \in JobIDs /\ NonTerminalOnly) =>
         FailureClass(fetchErr) = "deadline exceeded"

\* C18: an unexpected status code from the status endpoint is the last
\* request of the Fetch, whatever time is left before the deadline, and Fetch
\* fails with the API error that carries the code.
C18_StatusNon200Fails ==
  \A k \in StatusReplies :
    replies[k].outcome = "badstatus" =>
      /\ k = Len(replies)
      /\ Len(calls) = k
      /\ fpc = "done"
      /\ body = NoStream
      /\ fetchErr.kind = "ClientError"
      /\ Contains(fetchErr.Message, "failed to get job status")
      /\ Contains(fetchErr.Message, "(status")
      /\ \E c \in BadStatusCodes : Contains(fetchErr.Message, c)

\* the second poll got the unexpected code well before the deadline
C18_Witness ==
  /\ Len(replies) = 3
  /\ replies[2] = Reply("status", jobStateAccepted)
  /\ replies[3] = Reply("status", "badstatus")
  /\ now < deadline
  /\ pollCtx = "live"

\* the context fetchInternal gives the error of a step
StepContext(ep) ==
  CASE ep = "submit" -> "failed to submit execute request"
    [] ep = "results" -> "failed to get job results"
    [] ep = "download" -> "failed to download asset"

\* C19: an unexpected status code from the submit, results or download
\* endpoint is the last request of the Fetch; Fetch fails with the API
\* error that carries the code, under the context of that step, and returns
\* no stream.
C19_StepNon2xxFails ==
  \A k \in 1..Len(replies) :
    (replies[k].ep \in {"submit", "results", "download"} /\ replies[k].outcome = "badstatus") =>
      /\ k = Len(replies)
      /\ Len(calls) = k
      /\ fpc = "done"
      /\ body = NoStream
      /\ puts = <<>>
      /\ fetchErr.kind = "ClientError"
      /\ fetchErr.Message[1] = StepContext(replies[k].ep)
      /\ Contains(fetchErr.Message, "(status")
      /\ \E c \in BadStatusCodes : Contains(fetchErr.Message, c)

\* the download answered with the unexpected code
C19_Witness ==
  /\ Len(replies) >= 4
  /\ replies[Len(replies)] = Reply("download", "badstatus")
  /\ CallsTo("results") # {}

\* C20: one Fetch calls the submit endpoint at most once, the results
\* endpoint at most once and the download at most once, and no request
\* follows a request that failed.
C20_NoRetry ==
  /\ \A ep \in {"submit", "results", "download"} : Cardinality(CallsTo(ep)) <= 1
  /\ \A k \in 1..Len(replies) :
       replies[k].outcome \in {"badstatus", "neterr", "ctxerr"} =>
         /\ k = Len(replies)
         /\ Len(calls) = k
         /\ fpc = "done"

\* the results call failed on the network and the Fetch is over
C20_Witness ==
  /\ fpc = "done"
  /\ replies # <<>>
  /\ replies[Len(replies)] = Reply("results", "neterr")
  /\ Cardinality(CallsTo("results")) = 1

\* ------------------------------------------------ claims C21 to C30
\* the sample a returned GridValue was scanned from
SampleOf(gv) == CHOOSE r \in pIn.rows : ScanRow(r) = gv

\* C22: a sample GetValue returns is a row of the store, of the requested
\* variable, not later than the requested timestamp; no row of the variable
\* lies between its timestamp and the requested one; and no row of the
\* variable at its timestamp is nearer to the requested point.
C22_LatestNearestSample ==
  (ppc = "returned" /\ pIn.fn = "GetValue" /\ pOut.ret.err = NoError) =>
    /\ ~pOut.ret.nil
    /\ \E r \in pIn.rows : ScanRow(r) = pOut.ret.value
    /\ LET got == SampleOf(pOut.ret.value) IN
       /\ got.variable = pIn.q.variable
       /\ got.timestamp <= pIn.q.timestamp
       /\ \A o \in pIn.rows :
            (o.variable = pIn.q.variable /\ o.timestamp <= pIn.q.timestamp)
              => o.timestamp <= got.timestamp
       /\ \A o \in pIn.rows :
            (o.variable = pIn.q.variable /\ o.timestamp = got.timestamp)
              => SqDist(got, pIn.q.lat, pIn.q.lon) <= SqDist(o, pIn.q.lat, pIn.q.lon)

\* the store holds an older, a newer, a future, a farther and a foreign
\* sample, and the query got the nearer of the two latest ones
C22_Witness ==
  /\ ppc = "returned"
  /\ pIn.fn = "GetValue"
  /\ pIn.rows = GridRows
  /\ pIn.q = [variable |-> "pm2p5", timestamp |-> 10, lat |-> 0, lon |-> 0]
  /\ pOut.ret.err = NoError
  /\ pOut.ret.value.CatalogID = <<"catalog", "s1">>

\* C23: when the query ran, GetValue returns ErrGridValueNotFound exactly
\* when the store holds no row of the variable at or before the requested
\* timestamp; a backend failure is returned as another error.
C23_NotFoundExactly ==
  (ppc = "returned" /\ pIn.fn = "GetValue") =>
    /\ pOut.backend = "answered" =>
         (pOut.ret.err = ErrGridValueNotFound
            <=> ~\E r \in pIn.rows : /\ r.variable = pIn.q.variable
                                     /\ r.timestamp <= pIn.q.timestamp)
    /\ pOut.backend = "failed" =>
         /\ pOut.ret.err # NoError
         /\ pOut.ret.err # ErrGridValueNotFound
         /\ pOut.ret.nil
    /\ pOut.ret.err # NoError => pOut.ret.nil

\* the variable has samples, all of them after the requested timestamp
C23_Witness ==
  /\ ppc = "returned"
  /\ pIn.fn = "GetValue"
  /\ pIn.q.variable = "pm2p5"
  /\ pIn.q.timestamp = 5
  /\ pIn.rows # {}
  /\ \A r \in pIn.rows : r.variable = "pm2p5" /\ r.timestamp > 5
  /\ pOut.ret.err = ErrGridValueNotFound

\* a string that writes a version 7 UUID in one of the four forms
WellFormed36(c) ==
  /\ Len(c) = 36
  /\ \A i \in 1..36 : IF i \in HyphenAt THEN c[i] = "-" ELSE c[i] \in HexChars
  /\ c[15] = "7"

IsUUIDv7Text(t) ==
  \/ WellFormed36(t)
  \/ /\ Len(t) = 45
     /\ \A i \in 1..9 : Fold(t[i]) = UrnPrefix[i]
     /\ WellFormed36(SubSeq(t, 10, 45))
  \/ /\ Len(t) = 38
     /\ t[1] = "{" /\ t[38] = "}"
     /\ WellFormed36(SubSeq(t, 2, 37))
  \/ /\ Len(t) = 32
     /\ \A i \in 1..32 : t[i] \in HexChars
     /\ t[13] = "7"

\* C29: RunID.Validate returns nil for the strings that write a version 7
\* UUID and an error for every other string.
C29_ValidateExactlyV7 ==
  (ppc = "returned" /\ pIn.fn = "Validate") =>
    (pOut.err = NoError <=> IsUUIDv7Text(pIn.r))

\* C30: rendering a key twice gives the same string, equal keys render to
\* equal strings, and keys that differ in the run identifier only render to
\* different strings.
C30_KeyPureAndInjectiveInRunID ==
  (ppc = "returned" /\ pIn.fn = "Key") =>
    /\ pOut.again = pOut.first
    /\ pIn.pair[1] = pIn.pair[2] => pOut.first = pOut.second
    /\ pIn.pair[1].RunID # pIn.pair[2].RunID => pOut.first # pOut.second

\* two run identifiers, one of them ending like the extension
C30_Witness ==
  /\ ppc = "returned"
  /\ pIn.fn = "Key"
  /\ pIn.pair[1].RunID = <<"r">>
  /\ pIn.pair[2].RunID = <<"r", ".", "g">>
  /\ pIn.pair[1].Extension = <<"g", ".", "g">>

\* C21: the error of a failed lookup is an ErrVariableNotFound with the
\* requested variable, timestamp and coordinates when the store answered
\* not found, and for any other store failure an error that names the
\* variable and wraps the store's error; neither is turned into the other.
C21_NotFoundVersusStoreError ==
  (qpc # "panicked" /\ FailOrder # <<>>) =>
    LET f == FailOrder[1] IN
    /\ tout[f] = "notfound" =>
         /\ gErr.kind = "ErrVariableNotFound"
         /\ gErr.Variable = reqVars[f]
         /\ gErr.Timestamp = qpoint.ts
         /\ gErr.Lat = qpoint.lat /\ gErr.Lon = qpoint.lon
    /\ tout[f] \in {"error", "ctx"} =>
         /\ gErr.kind = "wrapped"
         /\ Contains(gErr.text, reqVars[f])
         /\ Unwrap(gErr) = StoreErr(tout[f])
    /\ qpc = "returned" => qRet.err = gErr

\* the second variable's lookup hit a store failure and the call returned it
C21_Witness ==
  /\ qpc = "returned"
  /\ Len(reqVars) >= 2
  /\ FailOrder # <<>>
  /\ FailOrder[1] = 2
  /\ tout[2] = "error"
  /\ qRet.err.kind = "wrapped"

\* C27: a request with a repeated variable name makes one lookup per
\* occurrence, and the successful result has one slot per occurrence, each
\* filled under the name of its occurrence.
C27_NoDeduplication ==
  /\ launched <= Len(reqVars)
  /\ Len(order) <= Len(reqVars)
  /\ (qpc = "returned" /\ qRet.err = NoError) =>
       /\ launched = Len(reqVars)
       /\ \A i \in 1..Len(reqVars) : Cardinality({k \in 1..Len(order) : order[k] = i}) = 1
       /\ Len(qRet.results) = Len(reqVars)
       /\ \A i \in 1..Len(reqVars) : qRet.results[i].Name = reqVars[i]

\* the same variable asked for twice, around another one
C27_Witness ==
  /\ qpc = "returned"
  /\ qRet.err = NoError
  /\ reqVars = <<"pm10", "no2", "pm10">>
  /\ Len(qRet.results) = 3

\* C28: each result of a successful GetVariables has the name of the request
\* and the value, unit, latitude, longitude, timestamp and catalog id of the
\* sample the store returned for it.
C28_ResultCarriesSample ==
  (qpc = "returned" /\ qRet.err = NoError) =>
    \A i \in 1..Len(reqVars) :
      LET gv == GridValueOf(reqVars[i], qpoint) IN
      qRet.results[i] = [Name |-> reqVars[i], Value |-> gv.Value, Unit |-> gv.Unit,
                         Timestamp |-> gv.Timestamp, Lat |-> gv.Lat, Lon |-> gv.Lon,
                         CatalogID |-> gv.CatalogID]

\* a result whose sample lies off the requested point and before the
\* requested time
C28_Witness ==
  /\ qpc = "returned"
  /\ qRet.err = NoError
  /\ Len(reqVars) = 2
  /\ qRet.results[2].Lat # qpoint.lat
  /\ qRet.results[2].Timestamp < qpoint.ts

\* YYYY-MM-DD of the dates that are requested
DateText(dt) ==
  CASE dt = [y |-> 2025, m |-> 3, d |-> 12] -> <<"2","0","2","5","-","0","3","-","1","2">>
    [] dt = [y |-> 2024, m |-> 11, d |-> 5] -> <<"2","0","2","4","-","1","1","-","0","5">>

\* C24: a successful Ingest wrote the key source/dataset/date/run-id.extension
\* made of the fetcher's source and extension, the requested dataset, the
\* requested date as YYYY-MM-DD and the run identifier as passed, and the
\* object under the key holds the bytes of the fetched stream.
C24_KeyAndBytes ==
  (ipc = "done" /\ ingestErr = NoError) =>
    /\ puts[Len(puts)].key =
         <<"ads", "/">> \o req.Dataset \o <<"/">> \o DateText(req.Date) \o <<"/">>
           \o runID \o <<".", "grib">>
    /\ body.content \in AssetBytes
    /\ [key |-> puts[Len(puts)].key, content |-> body.content] \in objects

\* a successful Ingest for the fifth of November
C24_Witness ==
  /\ ipc = "done"
  /\ ingestErr = NoError
  /\ req.Date = [y |-> 2024, m |-> 11, d |-> 5]
  /\ runID = RunV7b
  /\ objects # {}

\* C25: when the submit was accepted, a poll reported successful, the
\* results call returned the asset and the download returned a body, Fetch
\* returns no error and the open stream of the bytes the download served,
\* labelled with the source and the extension.
C25_FetchSuccess ==
  (replies # <<>> /\ replies[Len(replies)] = Reply("download", "ok")) =>
    /\ replies[1] = Reply("submit", "ok")
    /\ \E k \in StatusReplies : replies[k].outcome = jobStateSuccessful
    /\ fpc = "done"
    /\ fetchErr = NoError
    /\ body.content \in AssetBytes
    /\ ipc = "put" => body.open
    /\ ipc \in {"put", "done"}

\* Fetch has returned the stream and Ingest has not stored it yet
C25_Witness ==
  /\ ipc = "put"
  /\ fpc = "done"
  /\ fetchErr = NoError
  /\ body = [open |-> TRUE, content |-> "grib-bytes"]
  /\ Len(calls) = 4

\* the Puts a caller issued
PutsOf(c) == {k \in 1..Len(puts) : puts[k].runID = cc[c].runID}

\* C26: of Ingest calls that run side by side with different run
\* identifiers, each names only the job id its own submit returned, no two
\* hold the same job id, each holds only the stream of its own job, and each
\* ends as it would alone: a success has stored the asset of its own job
\* under its own key by its one Put, a store failure has left its key
\* empty, and a call that failed earlier issued no Put.
C26_CallsIndependent ==
  \A c \in Callers :
    /\ cc[c].named \subseteq {cc[c].jobID}
    /\ \A d \in Callers \ {c} : cc[c].jobID # "none" => cc[d].jobID # cc[c].jobID
    /\ cc[c].body.content \in {"none", AssetOf(cc[c].jobID)}
    /\ cc[c].pc # "done" => PutsOf(c) = {}
    /\ (cc[c].pc = "done" /\ cc[c].err = NoError) =>
         /\ Cardinality(PutsOf(c)) = 1
         /\ \A k \in PutsOf(c) : puts[k].ok /\ puts[k].key = CallKey(c)
         /\ [key |-> CallKey(c), content |-> AssetOf(cc[c].jobID)] \in objects
    /\ (cc[c].pc = "done" /\ cc[c].err # NoError) =>
         /\ \A k \in PutsOf(c) : ~puts[k].ok
         /\ ~\E o \in objects : o.key = CallKey(c)
         /\ cc[c].body.content = "none" => PutsOf(c) = {}

\* two calls for the same dataset and date, the second one submitted first,
\* both stored
C26_Witness ==
  /\ \A c \in Callers : cc[c].pc = "done" /\ cc[c].err = NoError
  /\ cc[1].req = cc[2].req
  /\ remote = <<cc[2].jobID, cc[1].jobID>>
  /\ Cardinality(objects) = 2
  /\ puts[1].runID = cc[1].runID

\* the dates, datasets and run identifiers on the command line that are
\* well formed
WellFormedDateFlags == {DateText(dt) : dt \in Dates}
FlagsWellFormed ==
  /\ mflags.dataset \in ValidDatasets
  /\ mflags.date \in WellFormedDateFlags
  /\ mflags.runID \in ValidV7RunIDs
StepsDone(names) == {i \in 1..Len(msteps) : msteps[i].step \in names}
StepOk(name) == \E i \in 1..Len(msteps) : msteps[i] = [step |-> name, ok |-> TRUE]
StepFailed(name) == \E i \in 1..Len(msteps) : msteps[i] = [step |-> name, ok |-> FALSE]
StoreInitSteps == {"minio.New", "storage.BucketExists", "storage.MakeBucket"}

\* C31: for a dataset that is not one of the known identifiers the command
\* stops at the flag validation: no request reaches the job API, no Put is
\* issued and no object is written, the object store is never contacted, and
\* the process exits with the configuration status right after the
\* validation.
C31_UnknownDatasetRejected ==
  mflags.dataset \notin ValidDatasets =>
    /\ calls = <<>>
    /\ puts = <<>>
    /\ objects = {}
    /\ StepsDone(StoreInitSteps \cup {"config", "Ingest"}) = {}
    /\ mpc \in {"flags", "exited"}
    /\ mpc = "exited" =>
         /\ msteps = <<[step |-> "flags", ok |-> FALSE]>>
         /\ exitStatus = <<ConfigError>>

\* the command was given an unknown dataset with a well-formed date and
\* run identifier, and has exited
C31_Witness ==
  /\ mpc = "exited"
  /\ mflags.dataset = <<"cams-global-reanalysis-eac4">>
  /\ mflags.date \in WellFormedDateFlags
  /\ mflags.runID \in ValidV7RunIDs
  /\ exitStatus = <<ConfigError>>

C40_ValidationBeforeExternalCalls ==
  /\ \A i \in StepsDone(StoreInitSteps \cup {"Ingest"}) :
       /\ \E j \in 1..(i - 1) : msteps[j] = [step |-> "flags", ok |-> TRUE]
       /\ \E j \in 1..(i - 1) : msteps[j] = [step |-> "config", ok |-> TRUE]
  /\ (calls # <<>> \/ puts # <<>>) =>
       /\ StepOk("flags")
       /\ StepOk("config")
       /\ StepOk("Ingest")
  /\ (\E name \in StoreInitSteps : StepFailed(name)) =>
       /\ mpc = "exited"
       /\ exitStatus = <<ConfigError>>
       /\ exitStatus # <<ApplicationError>>
       /\ ~StepOk("Ingest")
       /\ calls = <<>>
       /\ puts = <<>>

\* the bucket could not be made at start-up, and the process has exited
C40_Witness ==
  /\ mpc = "exited"
  /\ StepFailed("storage.MakeBucket")
  /\ FlagsWellFormed
  /\ exitStatus = <<ConfigError>>

\* C33: the query endpoint answers a request that is invalid or malformed
\* (a latitude that is no number or out of range, a time that is no
\* timestamp, no variables, no parameters) with one structured error of the
\* 400 class.
C33_InvalidRequestIs400 ==
  (/\ ppc = "returned"
   /\ pIn.fn = "ServeHTTP"
   /\ pIn.method = "GET"
   /\ pIn.path = "/v1/environmental"
   /\ pIn.query # QueryOK) =>
    /\ pOut.response.status = 400
    /\ pOut.response.contentType = "application/json"

\* C34: a step that changes result slot j is the return of lookup j, which
\* was in flight and is finished after it, and the slot had not been written
\* before; GetVariables returns only when every variable's lookup was
\* launched and has finished, what it returns on success is the slots as
\* they are then, and no slot changes after the return.
C34_OwnSlotThenWait ==
  [][/\ \A j \in 1..Len(reqVars) :
          results'[j] # results[j] =>
            /\ tpc[j] = "inflight"
            /\ tpc'[j] = "finished"
            /\ order' = Append(order, j)
            /\ results[j] = ZeroResult
            /\ \A k \in 1..Len(reqVars) : k # j => results'[k] = results[k]
     /\ (qpc = "running" /\ qpc' = "returned") =>
          /\ launched = Len(reqVars)
          /\ \A i \in 1..Len(reqVars) : tpc[i] = "finished"
          /\ qRet'.err = NoError => qRet'.results = results
     /\ qpc = "returned" => results' = results /\ tpc' = tpc
    ]_vars

\* three lookups finished out of launch order, each filled a slot, and
\* GetVariables has returned them
C34_Witness ==
  /\ qpc = "returned"
  /\ Len(reqVars) = 3
  /\ order = <<2, 3, 1>>
  /\ \A i \in 1..3 : results[i].Name = reqVars[i]
  /\ qRet.results = results

\* C35: the lookups of a call share one context: any two lookups in flight
\* see the same one; once the inbound request is cancelled every lookup in
\* flight sees a cancelled context; and the context is cancelled once
\* GetVariables has returned.
C35_SharedScope ==
  /\ \A i \in 1..Len(reqVars), j \in 1..Len(reqVars) :
       (tpc[i] = "inflight" /\ tpc[j] = "inflight") => LookupCtx(i) = LookupCtx(j)
  /\ reqCancelled =>
       \A i \in 1..Len(reqVars) : tpc[i] = "inflight" => LookupCtx(i) = "cancelled"
  /\ qpc = "returned" => gCtx = "cancelled"

\* the inbound request was cancelled while two lookups were in flight and no
\* lookup had failed
C35_Witness ==
  /\ qpc = "running"
  /\ reqCancelled
  /\ gErr = NoError
  /\ Cardinality({i \in 1..Len(reqVars) : tpc[i] = "inflight"}) >= 2

\* when the poll loop started: its timeout context was made then
PollStart == deadline - PollTimeout
\* the times at which the ticker fires
TickTimes == {PollStart + n * PollInterval : n \in 1..MaxTime}

InPollLoop == fpc \in {"select", "poll"}

\* C37: whenever waitForCompletion is running it eventually returns,
\* whatever states the job reports; and the step on which it returns is the
\* answer successful, the answer failed or rejected, a status request that
\* failed, or the poll context being done (cancellation or the deadline).
C37_PollLoopTerminates ==
  /\ InPollLoop ~> ~InPollLoop
  /\ [][(InPollLoop /\ ~InPollLoop') =>
          \/ /\ fpc = "poll"
             /\ replies'[Len(replies')] = Reply("status", jobStateSuccessful)
             /\ fpc' \in {"results", "done"}
          \/ /\ fpc = "poll"
             /\ replies'[Len(replies')].outcome \in {jobStateFailed, jobStateRejected}
             /\ fetchErr' # NoError
          \/ /\ fpc = "poll"
             /\ replies'[Len(replies')].outcome \in {"badstatus", "neterr", "ctxerr"}
             /\ fetchErr' # NoError
          \/ /\ fpc = "select"
             /\ pollCtx # "live"
             /\ fetchErr' # NoError
       ]_vars

\* the job was reported accepted, then running, and the loop returned on the
\* poll deadline with no cancellation
C37_Witness ==
  /\ fpc = "done"
  /\ ~cancelled
  /\ pollCtx = "deadline"
  /\ Cardinality(StatusReplies) = 2
  /\ replies[2] = Reply("status", jobStateAccepted)
  /\ replies[3] = Reply("status", jobStateRunning)
  /\ fetchErr # NoError

\* C39: of the response bodies the steps of a Fetch received, the only one
\* open after its step returned is the download body of a Fetch that
\* succeeded, which is the stream handed to the caller; the bodies of the
\* submit, status and results steps, and the download body of a failed
\* download, are closed, so when Fetch has returned an error none is open.
C39_ResponseBodiesClosed ==
  /\ \A k \in 1..Len(replies) :
       replies[k].bodyOpen =>
         /\ k = Len(replies)
         /\ replies[k].ep = "download"
         /\ fpc = "done"
         /\ fetchErr = NoError
         /\ body.content \in AssetBytes
  /\ (fpc = "done" /\ fetchErr # NoError) =>
       /\ body = NoStream
       /\ \A k \in 1..Len(replies) : ~replies[k].bodyOpen
  /\ (fpc = "done" /\ fetchErr = NoError /\ ipc = "put") =>
       /\ body.open
       /\ replies[Len(replies)].bodyOpen

\* the download answered with a bad status after the submit, a status poll
\* and the results had been answered, and Fetch has returned its error
C39_Witness ==
  /\ fpc = "done"
  /\ fetchErr # NoError
  /\ Len(replies) = 4
  /\ replies[4].ep = "download"
  /\ replies[4].outcome = "badstatus"
  /\ \A k \in 1..4 : ~replies[k].bodyOpen

\* C38: GetVariables does not crash on a store answer: whatever the store
\* answered, a lookup that has ended either filled its slot with the
\* variable's result or gave the group an error, and the call is not ended
\* by a panic.
C38_NoCrashOnStoreAnswer ==
  /\ qpc # "panicked"
  /\ \A i \in 1..Len(reqVars) :
       tpc[i] = "finished" =>
         \/ results[i].Name = reqVars[i]
         \/ (tout[i] \in {"notfound", "error", "ctx"} /\ gErr # NoError)

====
